---- MODULE Spec2Model ----
(***************************************************************************)
(* The pipeline container and the objects it serves, in five               *)
(* specifications over one set of variables:                               *)
(*   Spec          the serving runtime: the application lifespan           *)
(*                 (container/startup.py), the run and stream_run routes   *)
(*                 (container/routes/v4/runs.py), the Manager's load phase *)
(*                 and the execution_handler consumer loop;                *)
(*   TracingSpec   the tracing context (objects/pipeline.py);              *)
(*   ExecutorSpec  the execution of a recorded Graph, on the Graphs of     *)
(*                 examples/custom_models/model_with_file.py and           *)
(*                 tests/test_basic_maths.py;                              *)
(*   StreamSpec    the frames of one streaming response (stream_func of    *)
(*                 container/routes/v4/runs.py), over iterator streams and *)
(*                 the queue stream and producer thread of                 *)
(*                 examples/text-to-image/sdxl-lightning-streaming;        *)
(*   EntitySpec    several streaming runs in sequence against the one      *)
(*                 MyModelClass entity of that example: predict, the       *)
(*                 run_func threads and the Queue they all share.          *)
(* Each specification leaves the variables of the others as they start.    *)
(***************************************************************************)
EXTENDS Integers, Sequences, FiniteSets, TLC

\* ------------------------------------------------------------------ bounds
\* Client requests that may arrive during one life of the application.
MaxReq == 2
\* on_startup Nodes of the loaded Graph.
NumStartupNodes == 2

Requests == 1..MaxReq
StartupNodes == 1..NumStartupNodes
\* Identities a consumer task can have; lifespan decides which exist.
TaskIds == {1, 2}

\* ------------------------------------------------------------ Python values
\* Python's None, and a value that is present, for a nullable field.
None == [some |-> FALSE]
Some(x) == [some |-> TRUE, v |-> x]

\* str(x) and repr(x) of an exception: texts derived from it, not the object.
str(x) == <<"str", x[2]>>
repr(x) == <<"repr", x[2]>>

\* pipeline.exceptions: RunInputException and RunnableError derive from
\* Exception and not from one another.
isinstance(run_output, cls) ==
    CASE cls = "RunInputException" -> run_output.cls = "RunInputException"
      [] cls = "RunnableError" -> run_output.cls = "RunnableError"
      [] cls = "Exception" ->
            run_output.cls \in {"RunInputException", "RunnableError", "Exception"}
      [] OTHER -> FALSE

\* pipeline_schemas.PipelineState
PipelineState == {"loading", "ready", "load_failed", "startup_failed"}

VARIABLES
    app_pc,                  \* lifespan: "init", "serving", "failed", "shutdown"
    manager,                 \* app.state.manager: which Manager class was built
    pipeline_state,          \* manager.pipeline_state
    pipeline_state_message,  \* manager.pipeline_state_message
    load_pc,                 \* the Manager's load phase: "resolve", "startup", "done"
    pipeline_loaded,         \* the Manager holds the Graph and its Entities
    startup_count,           \* executions of each on_startup Node
    startup_error,           \* on_startup Nodes whose execution raised
    execution_queue,         \* app.state.execution_queue (asyncio.Queue)
    response_queue,          \* the response_queue each request created
    tasks,                   \* consumer tasks created by lifespan
    handler_pc,              \* each consumer: "get", "running", "cancelled"
    handler_item,            \* the item a consumer is executing
    in_flight,               \* requests being executed against the Entities
    req_pc,                  \* each request's handler position
    req_kind,                \* "run" or "stream_run"
    result,                  \* the ContainerRunResult a handler returned
    status_code,             \* response.status_code
    uuid_next,               \* uuid4 values handed out so far
    run_files,               \* files under /tmp/run_files
    state_seen,              \* history: pipeline_state when the request arrived
    admit_order,             \* history: requests in the order they were queued
    start_order,             \* history: requests in the order their execution began
    exec_count,              \* history: executions begun for each request
    executed,                \* history: the outcome the Executor computed
    pushes                   \* history: replies pushed on each response_queue

VARIABLES
    ex_graph,                \* the Graph being executed, by its name
    ex_mode,                 \* "manager": loaded by a Manager; "direct": Graph.run
    ex_pc,                   \* "created", "idle", "running"
    ex_args,                 \* the input bindings of this execution
    ex_node,                 \* the Node the running execution is at
    ex_values,               \* this run's value of each Variable
    ex_cache,                \* the cached output of each run_once Node
    ex_entity,               \* the Entity's state: "constructed", "loaded"
    ex_calls,                \* history: invocations of each user function
    ex_runs,                 \* history: executions begun, the load phase included
    ex_results,              \* the results recorded in this run, in order
    ex_named,                \* the results recorded in this run, by function
    ex_outcome               \* what the last execution returned or raised

VARIABLES
    defined_pipelines,       \* Pipeline.defined_pipelines: name -> Graph
    current_pipeline,        \* Pipeline._current_pipeline
    pipeline_context_active, \* Pipeline._pipeline_context_active
    graphs,                  \* the Graph objects created so far
    is_output,               \* the is_output attribute of each Variable object
    with_blocks,             \* the with blocks entered and not yet left
    op,                      \* history: the last tracing call and its argument
    op_count,                \* history: tracing calls made
    op_error,                \* the exception the last tracing call raised
    returned                 \* what the last get_pipeline call returned

VARIABLES
    stream_pc,               \* stream_func: "loop", "yielded", "done", "failed"
    stream_outputs,          \* response_schema.outputs of the streaming run
    static_outputs,          \* stream_run: static_outputs
    streaming_outputs,       \* stream_run: streaming_outputs
    stream_values,           \* what each stream has yet to yield
    frames,                  \* the frames stream_func has yielded
    connected,               \* the client has not disconnected
    ended,                   \* streams whose iterable.end() was called
    detected,                \* request.is_disconnected() has returned True
    stream_kind,             \* what stands behind each stream: "iterator", "queue"
    has_end,                 \* streams whose iterable has an end attribute
    queue,                   \* MyModelClass.queue: items put and not yet got
    producer_pc,             \* the run_func thread: "running", "done", "none"
    stream_error,            \* the exception that ended stream_func
    next_calls,              \* history: __next__ calls made on each stream
    stop_iteration,          \* history: streams that have raised StopIteration
    stream_source            \* history: what each stream had to yield at first

VARIABLES
    self_queue,              \* MyModelClass.queue, made once by load
    put_by,                  \* history: the run whose thread put each queued item
    pending,                 \* the execution queue of the streaming runs
    predict_pc,              \* the run whose predict the consumer is executing
    thread_pc,               \* the run_func thread of each run
    thread_values,           \* what each thread has yet to put
    client_pc,               \* stream_run and stream_func of each client
    client_connected,        \* the client has not disconnected
    client_frames,           \* the frames sent to each client
    client_error,            \* the exception that ended a client's stream_func
    ended_by                 \* history: the run whose None ended a client's stream

servingVars == <<app_pc, manager, pipeline_state, pipeline_state_message, load_pc,
          pipeline_loaded, startup_count, startup_error, execution_queue, response_queue, tasks, handler_pc,
          handler_item, in_flight, req_pc, req_kind, result, status_code,
          uuid_next, run_files, state_seen, admit_order, start_order,
          exec_count, executed, pushes>>
executorVars == <<ex_graph, ex_mode, ex_pc, ex_args, ex_node, ex_values, ex_cache,
                  ex_entity, ex_calls, ex_runs, ex_results, ex_named, ex_outcome>>
tracingVars == <<defined_pipelines, current_pipeline, pipeline_context_active,
                 graphs, is_output, with_blocks, op, op_count, op_error, returned>>
streamVars == <<stream_pc, stream_outputs, static_outputs, streaming_outputs,
                stream_values, frames, connected, ended, detected, stream_kind,
                has_end, queue, producer_pc, stream_error, next_calls,
                stop_iteration, stream_source>>
entityVars == <<self_queue, put_by, pending, predict_pc, thread_pc, thread_values,
                client_pc, client_connected, client_frames, client_error, ended_by>>
vars == <<servingVars, executorVars, tracingVars, streamVars, entityVars>>

managerVars == <<manager, pipeline_state, pipeline_state_message, load_pc,
                 pipeline_loaded, startup_count, startup_error>>
handlerVars == <<tasks, handler_pc, handler_item, in_flight, start_order,
                 exec_count, executed, pushes>>
requestVars == <<req_pc, req_kind, result, status_code, uuid_next, run_files,
                 state_seen, admit_order>>

\* The serving runtime before lifespan runs.
ServingInit ==
    /\ app_pc = "init"
    /\ manager = "none"
    /\ pipeline_state = "loading"
    /\ pipeline_state_message = None
    /\ load_pc = "resolve"
    /\ pipeline_loaded = FALSE
    /\ startup_count = [n \in StartupNodes |-> 0]
    /\ startup_error = {}
    /\ execution_queue = <<>>
    /\ response_queue = [r \in Requests |-> <<>>]
    /\ tasks = {}
    /\ handler_pc = [t \in TaskIds |-> "get"]
    /\ handler_item = [t \in TaskIds |-> None]
    /\ in_flight = {}
    /\ req_pc = [r \in Requests |-> "new"]
    /\ req_kind = [r \in Requests |-> "none"]
    /\ result = [r \in Requests |-> None]
    /\ status_code = [r \in Requests |-> 200]
    /\ uuid_next = 0
    /\ run_files = {}
    /\ state_seen = [r \in Requests |-> "none"]
    /\ admit_order = <<>>
    /\ start_order = <<>>
    /\ exec_count = [r \in Requests |-> 0]
    /\ executed = [r \in Requests |-> None]
    /\ pushes = [r \in Requests |-> 0]

\* ------------------------------------------------- what the Executor returns
\* A produced value: its runtime shape, the request it was computed for, and
\* for a file object its name attribute and whether seek() works.
Val(shape, r) == [shape |-> shape, run |-> r, name |-> Some(<<"name", r>>),
                  seekable |-> TRUE, items |-> <<>>]
\* An io.BufferedIOBase with no name attribute and no working seek().
RawBuffer(r) == [shape |-> "buffer", run |-> r, name |-> None,
                 seekable |-> FALSE, items |-> <<>>]
ListVal(r, items) == [shape |-> "list", run |-> r, name |-> None,
                      seekable |-> FALSE, items |-> items]

\* The lists of outputs an execution of request r may return.
OutputLists(r) ==
    { <<>>,
      <<Val("integer", r)>>,
      <<Val("integer", r), Val("stream", r)>>,
      <<Val("File", r), ListVal(r, <<Val("File", r), RawBuffer(r)>>)>> }

\* What the consumer may push on a response_queue for request r: the outputs,
\* or the exception the execution ended with.
Outputs(r, outs) == [cls |-> "outputs", run |-> r, outs |-> outs]
Raised(r, cls) == [cls |-> cls, run |-> r, outs |-> <<>>]
Outcomes(r) ==
    {Outputs(r, outs) : outs \in OutputLists(r)}
        \cup {Raised(r, cls) : cls \in {"RunInputException", "RunnableError", "Exception"}}

\* Attributes of the exception objects; exception_of a RunnableError is the
\* exception it wraps, and of any other exception the exception itself.
message_of(run_output) == <<"message", run_output.run>>
exception_of(run_output) == <<"exception", run_output.run>>
traceback_of(run_output) == Some(<<"traceback", run_output.run>>)

\* ------------------------------------------------------------ routes/v4/runs
ContainerRunError(type, message, traceback) ==
    [type |-> type, message |-> message, traceback |-> traceback]
ContainerRunResult(outputs, inputs, error) ==
    [outputs |-> outputs, inputs |-> inputs, error |-> error]
RunOutput(type, value, file) == [type |-> type, value |-> value, file |-> file]

\* RunIOType.from_object: the output type of a value, by its runtime shape.
from_object(v) ==
    CASE v.shape = "integer" -> "integer"
      [] v.shape \in {"File", "buffer"} -> "file"
      [] v.shape = "stream" -> "stream"
      [] OTHER -> "pkl"

IsFileObject(v) == v.shape \in {"File", "buffer"}

\* uuid4 calls one _save_run_file makes: the directory, and the default of
\* getattr(file, "name", ...) for a buffer, evaluated whether used or not.
SaveUuids(file) == IF file.shape = "File" THEN 1 ELSE 2

\* _save_run_file, given the number of uuid4 values handed out before it.
save_run_file(file, u) ==
    LET uuid_path == u + 1
        file_name == IF file.shape = "File" \/ file.name.some
                     THEN file.name.v
                     ELSE <<"uuid", u + 2>>
        file_size == IF file.shape = "File" \/ file.seekable
                     THEN <<"size", file.run>>
                     ELSE <<"size", -1>>
    IN  [name |-> file_name, path |-> <<uuid_path, file_name>>,
         size |-> file_size, url |-> None]

RECURSIVE SumUuids(_)
SumUuids(files) ==
    IF files = <<>> THEN 0 ELSE SaveUuids(Head(files)) + SumUuids(Tail(files))

IsFileList(output) ==
    /\ from_object(output) = "pkl"
    /\ output.shape = "list"
    /\ \A i \in 1..Len(output.items) : IsFileObject(output.items[i])

\* uuid4 values one output of a run consumes.
OutputUuids(output) ==
    IF from_object(output) = "file" THEN SaveUuids(output)
    ELSE IF IsFileList(output) THEN SumUuids(output.items)
    ELSE 0

RECURSIVE UuidsUsed(_)
UuidsUsed(run_outputs) ==
    IF run_outputs = <<>> THEN 0
    ELSE OutputUuids(Head(run_outputs)) + UuidsUsed(Tail(run_outputs))

\* The files of a list, saved one after the other.
RECURSIVE save_file_list(_, _)
save_file_list(files, u) ==
    IF files = <<>> THEN <<>>
    ELSE <<RunOutput("file", None, Some(save_run_file(Head(files), u)))>>
            \o save_file_list(Tail(files), u + SaveUuids(Head(files)))

\* _parse_run_outputs
RECURSIVE parse_run_outputs(_, _)
parse_run_outputs(run_outputs, u) ==
    IF run_outputs = <<>> THEN <<>>
    ELSE LET output == Head(run_outputs)
             output_type == from_object(output)
             parsed ==
                 IF output_type = "file"
                 THEN RunOutput(output_type, None, Some(save_run_file(output, u)))
                 ELSE IF IsFileList(output)
                 THEN RunOutput("array", Some(save_file_list(output.items, u)), None)
                 ELSE RunOutput(output_type, Some(output), None)
         IN  <<parsed>> \o parse_run_outputs(Tail(run_outputs), u + OutputUuids(output))

\* The paths written under /tmp/run_files by parsing these outputs.
RECURSIVE SavedPaths(_)
SavedPaths(outputs) ==
    IF outputs = <<>> THEN {}
    ELSE LET o == Head(outputs)
         IN  (IF o.file.some THEN {o.file.v.path}
              ELSE IF o.type = "array" THEN SavedPaths(o.value.v)
              ELSE {})
                 \cup SavedPaths(Tail(outputs))

\* _handle_pipeline_state_not_ready without its startup_failed branch.
not_ready_without_startup_failed(state, state_message) ==
    IF state = "loading"
    THEN Some(ContainerRunResult(None, None,
            Some(ContainerRunError("pipeline_loading",
                                   <<"Pipeline is still loading", 0>>, None))))
    ELSE IF state = "load_failed"
    THEN Some(ContainerRunResult(None, None,
            Some(ContainerRunError("startup_error",
                                   <<"Pipeline failed to load", 0>>, state_message))))
    ELSE None

\* _handle_pipeline_state_not_ready without its load_failed branch.
not_ready_without_load_failed(state, state_message) ==
    IF state = "loading"
    THEN Some(ContainerRunResult(None, None,
            Some(ContainerRunError("pipeline_loading",
                                   <<"Pipeline is still loading", 0>>, None))))
    ELSE IF state = "startup_failed"
    THEN Some(ContainerRunResult(None, None,
            Some(ContainerRunError("startup_error",
                                   <<"Pipeline failed to startup", 0>>, state_message))))
    ELSE None

\* _handle_pipeline_state_not_ready without its loading branch.
not_ready_without_loading(state, state_message) ==
    IF state = "load_failed"
    THEN Some(ContainerRunResult(None, None,
            Some(ContainerRunError("startup_error",
                                   <<"Pipeline failed to load", 0>>, state_message))))
    ELSE IF state = "startup_failed"
    THEN Some(ContainerRunResult(None, None,
            Some(ContainerRunError("startup_error",
                                   <<"Pipeline failed to startup", 0>>, state_message))))
    ELSE None

\* _handle_pipeline_state_not_ready leaving the diagnostic out of the result
\* for startup_failed.
not_ready_without_diagnostic(state, state_message) ==
    IF state = "loading"
    THEN Some(ContainerRunResult(None, None,
            Some(ContainerRunError("pipeline_loading",
                                   <<"Pipeline is still loading", 0>>, None))))
    ELSE IF state = "load_failed"
    THEN Some(ContainerRunResult(None, None,
            Some(ContainerRunError("startup_error",
                                   <<"Pipeline failed to load", 0>>, state_message))))
    ELSE IF state = "startup_failed"
    THEN Some(ContainerRunResult(None, None,
            Some(ContainerRunError("startup_error",
                                   <<"Pipeline failed to startup", 0>>, None))))
    ELSE None

\* _handle_pipeline_state_not_ready: the result of a request the Manager is
\* not ready for, None when it is ready.
handle_pipeline_state_not_ready(state, state_message) ==
    IF state = "loading"
    THEN Some(ContainerRunResult(None, None,
            Some(ContainerRunError("pipeline_loading",
                                   <<"Pipeline is still loading", 0>>, None))))
    ELSE IF state = "load_failed"
    THEN Some(ContainerRunResult(None, None,
            Some(ContainerRunError("startup_error",
                                   <<"Pipeline failed to load", 0>>, state_message))))
    ELSE IF state = "startup_failed"
    THEN Some(ContainerRunResult(None, None,
            Some(ContainerRunError("startup_error",
                                   <<"Pipeline failed to startup", 0>>, state_message))))
    ELSE None

\* _generate_run_result testing for Exception before its subclasses.
generate_run_result_exception_first(run_output, u) ==
    IF isinstance(run_output, "Exception")
    THEN <<ContainerRunResult(None, None,
              Some(ContainerRunError("unknown", str(exception_of(run_output)), None))),
           500>>
    ELSE IF isinstance(run_output, "RunInputException")
    THEN <<ContainerRunResult(None, None,
              Some(ContainerRunError("input_error", message_of(run_output), None))),
           400>>
    ELSE IF isinstance(run_output, "RunnableError")
    THEN <<ContainerRunResult(None, None,
              Some(ContainerRunError("pipeline_error",
                                     repr(exception_of(run_output)),
                                     traceback_of(run_output)))),
           200>>
    ELSE <<ContainerRunResult(Some(parse_run_outputs(run_output.outs, u)), None, None),
           200>>

\* _generate_run_result handing out the traceback of a RunInputException.
generate_run_result_input_traced(run_output, u) ==
    IF isinstance(run_output, "RunInputException")
    THEN <<ContainerRunResult(None, None,
              Some(ContainerRunError("input_error", message_of(run_output),
                                     traceback_of(run_output)))),
           400>>
    ELSE IF isinstance(run_output, "RunnableError")
    THEN <<ContainerRunResult(None, None,
              Some(ContainerRunError("pipeline_error",
                                     repr(exception_of(run_output)),
                                     traceback_of(run_output)))),
           200>>
    ELSE IF isinstance(run_output, "Exception")
    THEN <<ContainerRunResult(None, None,
              Some(ContainerRunError("unknown", str(exception_of(run_output)), None))),
           500>>
    ELSE <<ContainerRunResult(Some(parse_run_outputs(run_output.outs, u)), None, None),
           200>>

\* _generate_run_result without the RunnableError branch.
generate_run_result_without_runnable(run_output, u) ==
    IF isinstance(run_output, "RunInputException")
    THEN <<ContainerRunResult(None, None,
              Some(ContainerRunError("input_error", message_of(run_output), None))),
           400>>
    ELSE IF isinstance(run_output, "Exception")
    THEN <<ContainerRunResult(None, None,
              Some(ContainerRunError("unknown", str(exception_of(run_output)), None))),
           500>>
    ELSE <<ContainerRunResult(Some(parse_run_outputs(run_output.outs, u)), None, None),
           200>>

\* _generate_run_result: <<result, status code>>.
generate_run_result(run_output, u) ==
    IF isinstance(run_output, "RunInputException")
    THEN <<ContainerRunResult(None, None,
              Some(ContainerRunError("input_error", message_of(run_output), None))),
           400>>
    ELSE IF isinstance(run_output, "RunnableError")
    THEN <<ContainerRunResult(None, None,
              Some(ContainerRunError("pipeline_error",
                                     repr(exception_of(run_output)),
                                     traceback_of(run_output)))),
           200>>
    ELSE IF isinstance(run_output, "Exception")
    THEN <<ContainerRunResult(None, None,
              Some(ContainerRunError("unknown", str(exception_of(run_output)), None))),
           500>>
    ELSE <<ContainerRunResult(Some(parse_run_outputs(run_output.outs, u)), None, None),
           200>>

\* ------------------------------------------------------- container/startup.py
\* The environments lifespan may be started in.
Environments ==
    { [MODEL_FRAMEWORK |-> None, PIPELINE_PATH |-> None],
      [MODEL_FRAMEWORK |-> None, PIPELINE_PATH |-> Some("my_pipeline:pipeline_graph")],
      [MODEL_FRAMEWORK |-> Some("cog"), PIPELINE_PATH |-> None],
      [MODEL_FRAMEWORK |-> Some("other"), PIPELINE_PATH |-> None] }

\* lifespan up to its yield, creating the consumer tasks `created`: the queue,
\* the Manager chosen by the environment (or the error it raises), the tasks.
lifespan_creating(created) ==
    /\ app_pc = "init"
    /\ \E env \in Environments :
          IF ~env.MODEL_FRAMEWORK.some /\ ~env.PIPELINE_PATH.some
          THEN \* ValueError: PIPELINE_PATH is not set
               /\ app_pc' = "failed"
               /\ UNCHANGED <<manager, tasks>>
          ELSE IF ~env.MODEL_FRAMEWORK.some
          THEN /\ manager' = "PipelineManager"
               /\ tasks' = created
               /\ app_pc' = "serving"
          ELSE IF env.MODEL_FRAMEWORK.v = "cog"
          THEN /\ manager' = "CogManager"
               /\ tasks' = created
               /\ app_pc' = "serving"
          ELSE \* NotImplementedError
               /\ app_pc' = "failed"
               /\ UNCHANGED <<manager, tasks>>
    /\ execution_queue' = <<>>
    /\ UNCHANGED <<pipeline_state, pipeline_state_message, load_pc, pipeline_loaded,
                   startup_count, startup_error, response_queue, handler_pc, handler_item, in_flight,
                   start_order, exec_count, executed, pushes>>
    /\ UNCHANGED requestVars

\* lifespan creating a second execution_handler task on the same queue.
lifespan_two_consumers == lifespan_creating({1, 2})

\* lifespan, entered: one execution_handler task is created.
lifespan == lifespan_creating({1})

\* lifespan, left: task.cancel().
lifespan_exit ==
    /\ app_pc = "serving"
    /\ app_pc' = "shutdown"
    /\ handler_pc' = [t \in TaskIds |-> IF t \in tasks THEN "cancelled" ELSE handler_pc[t]]
    /\ UNCHANGED <<execution_queue, response_queue, tasks, handler_item, in_flight,
                   start_order, exec_count, executed, pushes>>
    /\ UNCHANGED managerVars
    /\ UNCHANGED requestVars

\* ------------------------------------------------------------------- Manager
\* The diagnostic the Manager captures when its load phase fails.
Diagnostic(what) == Some(<<what, 0>>)

\* The load phase failing without a diagnostic.
manager_load_silent ==
    /\ app_pc = "serving"
    /\ pipeline_state = "loading"
    /\ load_pc = "resolve"
    /\ \/ /\ load_pc' = "startup"
          /\ pipeline_loaded' = TRUE
          /\ UNCHANGED <<pipeline_state, pipeline_state_message>>
       \/ /\ load_pc' = "done"
          /\ pipeline_state' = "load_failed"
          /\ UNCHANGED <<pipeline_loaded, pipeline_state_message>>
    /\ UNCHANGED <<manager, startup_count, startup_error, app_pc, execution_queue,
                   response_queue>>
    /\ UNCHANGED handlerVars
    /\ UNCHANGED requestVars

\* The Graph and its hosting module are resolved and the Entities constructed,
\* or that fails.
manager_load ==
    /\ app_pc = "serving"
    /\ pipeline_state = "loading"
    /\ load_pc = "resolve"
    /\ \/ /\ load_pc' = "startup"
          /\ pipeline_loaded' = TRUE
          /\ UNCHANGED <<pipeline_state, pipeline_state_message>>
       \/ /\ load_pc' = "done"
          /\ pipeline_state' = "load_failed"
          /\ pipeline_state_message' = Diagnostic("load traceback")
          /\ UNCHANGED pipeline_loaded
    /\ UNCHANGED <<manager, startup_count, startup_error, app_pc, execution_queue,
                   response_queue>>
    /\ UNCHANGED handlerVars
    /\ UNCHANGED requestVars

\* The load phase going on after an on_startup Node raised.
manager_startup_swallowing(n) ==
    /\ app_pc = "serving"
    /\ pipeline_state = "loading"
    /\ load_pc = "startup"
    /\ startup_count[n] = 0
    /\ \A m \in StartupNodes : m < n => startup_count[m] = 1
    /\ startup_count' = [startup_count EXCEPT ![n] = @ + 1]
    /\ \/ UNCHANGED startup_error
       \/ startup_error' = startup_error \cup {n}
    /\ UNCHANGED <<pipeline_state, pipeline_state_message, load_pc>>
    /\ UNCHANGED <<manager, pipeline_loaded, app_pc, execution_queue, response_queue>>
    /\ UNCHANGED handlerVars
    /\ UNCHANGED requestVars

\* The next of the Nodes the load phase runs (on_startup, and run_once Nodes
\* that need no client input) is executed: it completes, or it raises.
manager_startup(n) ==
    /\ app_pc = "serving"
    /\ pipeline_state = "loading"
    /\ load_pc = "startup"
    /\ startup_count[n] = 0
    /\ \A m \in StartupNodes : m < n => startup_count[m] = 1
    /\ startup_count' = [startup_count EXCEPT ![n] = @ + 1]
    /\ \/ UNCHANGED <<pipeline_state, pipeline_state_message, load_pc, startup_error>>
       \/ /\ startup_error' = startup_error \cup {n}
          /\ load_pc' = "done"
          /\ pipeline_state' = "startup_failed"
          /\ pipeline_state_message' = Diagnostic("startup traceback")
    /\ UNCHANGED <<manager, pipeline_loaded, app_pc, execution_queue, response_queue>>
    /\ UNCHANGED handlerVars
    /\ UNCHANGED requestVars

\* Every on_startup Node has completed: the Manager is ready.
manager_ready ==
    /\ app_pc = "serving"
    /\ pipeline_state = "loading"
    /\ load_pc = "startup"
    /\ \A n \in StartupNodes : startup_count[n] = 1
    /\ pipeline_state' = "ready"
    /\ load_pc' = "done"
    /\ UNCHANGED <<manager, pipeline_state_message, pipeline_loaded, startup_count,
                   startup_error, app_pc, execution_queue, response_queue>>
    /\ UNCHANGED handlerVars
    /\ UNCHANGED requestVars

\* --------------------------------------------------------- execution_handler
\* A consumer takes the oldest (request, response_queue) pair off the queue and
\* starts its execution against the loaded Graph.
handler_get(t) ==
    /\ t \in tasks
    /\ handler_pc[t] = "get"
    /\ execution_queue # <<>>
    /\ LET item == Head(execution_queue)
       IN  /\ handler_item' = [handler_item EXCEPT ![t] = Some(item)]
           /\ in_flight' = in_flight \cup {item.run_create}
           /\ start_order' = Append(start_order, item.run_create)
           /\ exec_count' = [exec_count EXCEPT ![item.run_create] = @ + 1]
    /\ execution_queue' = Tail(execution_queue)
    /\ handler_pc' = [handler_pc EXCEPT ![t] = "running"]
    /\ UNCHANGED <<app_pc, response_queue, tasks, executed, pushes>>
    /\ UNCHANGED managerVars
    /\ UNCHANGED requestVars

\* The execution ends with its outputs or an exception, which the consumer
\* pushes on the pair's response_queue before it takes the next pair.
handler_put(t) ==
    /\ t \in tasks
    /\ handler_pc[t] = "running"
    /\ LET item == handler_item[t].v
       IN  \E run_output \in Outcomes(item.run_create) :
              /\ response_queue' = [response_queue EXCEPT
                                      ![item.response_queue] = Append(@, run_output)]
              /\ pushes' = [pushes EXCEPT ![item.response_queue] = @ + 1]
              /\ executed' = [executed EXCEPT ![item.run_create] = Some(run_output)]
              /\ in_flight' = in_flight \ {item.run_create}
    /\ handler_item' = [handler_item EXCEPT ![t] = None]
    /\ handler_pc' = [handler_pc EXCEPT ![t] = "get"]
    /\ UNCHANGED <<app_pc, execution_queue, tasks, start_order, exec_count>>
    /\ UNCHANGED managerVars
    /\ UNCHANGED requestVars

\* ------------------------------------------------- routes/v4/runs: handlers
\* The (run_create, response_queue) pair a handler puts on the execution queue.
Item(r, q) == [run_create |-> r, response_queue |-> q]

\* run and stream_run up to their await: the request is turned away with
\* `not_ready` when that is a result, and else its pair is queued, leaving the
\* queue as `queue_after`, and the handler suspends on its response_queue.
\* Requests are served while the application is; their identities are labels,
\* so they arrive in the order of their numbers.
submit(r, kind, not_ready, queue_after) ==
    /\ app_pc = "serving"
    /\ req_pc[r] = "new"
    /\ \A q \in Requests : q < r => req_pc[q] # "new"
    /\ req_kind' = [req_kind EXCEPT ![r] = kind]
    /\ state_seen' = [state_seen EXCEPT ![r] = pipeline_state]
    /\ IF not_ready.some
       THEN /\ result' = [result EXCEPT ![r] = not_ready]
            /\ req_pc' = [req_pc EXCEPT ![r] = "rejected"]
            /\ UNCHANGED <<execution_queue, admit_order>>
       ELSE /\ execution_queue' = queue_after
            /\ req_pc' = [req_pc EXCEPT ![r] = "waiting"]
            /\ admit_order' = Append(admit_order, r)
            /\ UNCHANGED result
    /\ UNCHANGED <<status_code, uuid_next, run_files, app_pc, response_queue>>
    /\ UNCHANGED managerVars
    /\ UNCHANGED handlerVars

\* run putting its pair at the head of the queue.
run_lifo(r) ==
    submit(r, "run",
           handle_pipeline_state_not_ready(pipeline_state, pipeline_state_message),
           <<Item(r, r)>> \o execution_queue)

\* run putting its pair on the queue twice.
run_twice(r) ==
    submit(r, "run",
           handle_pipeline_state_not_ready(pipeline_state, pipeline_state_message),
           Append(Append(execution_queue, Item(r, r)), Item(r, r)))

\* run handing the consumer one response_queue shared by all requests.
run_shared_reply(r) ==
    submit(r, "run",
           handle_pipeline_state_not_ready(pipeline_state, pipeline_state_message),
           Append(execution_queue, Item(r, 1)))

\* run, lines 40-49.
run(r) ==
    submit(r, "run",
           handle_pipeline_state_not_ready(pipeline_state, pipeline_state_message),
           Append(execution_queue, Item(r, r)))

\* stream_run, lines 75-84.
stream_run(r) ==
    submit(r, "stream_run",
           handle_pipeline_state_not_ready(pipeline_state, pipeline_state_message),
           Append(execution_queue, Item(r, r)))

\* The reply a suspended handler takes off its response_queue, turned into
\* the response: the files saved for its outputs.
receive(r, kind) ==
    /\ req_pc[r] = "waiting"
    /\ req_kind[r] = kind
    /\ response_queue[r] # <<>>
    /\ response_queue' = [response_queue EXCEPT ![r] = Tail(@)]
    /\ LET run_output == Head(response_queue[r])
           generated == generate_run_result(run_output, uuid_next)
       IN  /\ uuid_next' = uuid_next + (IF generated[1].outputs.some
                                        THEN UuidsUsed(run_output.outs) ELSE 0)
           /\ run_files' = run_files \cup (IF generated[1].outputs.some
                                           THEN SavedPaths(generated[1].outputs.v)
                                           ELSE {})
    /\ UNCHANGED <<req_kind, state_seen, admit_order, app_pc, execution_queue>>
    /\ UNCHANGED managerVars
    /\ UNCHANGED handlerVars

\* run, lines 50-53: the result is returned.
run_return(r) ==
    /\ receive(r, "run")
    /\ LET generated == generate_run_result(Head(response_queue[r]), uuid_next)
       IN  /\ result' = [result EXCEPT ![r] = Some(generated[1])]
           /\ status_code' = [status_code EXCEPT ![r] = generated[2]]
    /\ req_pc' = [req_pc EXCEPT ![r] = "returned"]

\* stream_run returning outputs that hold no stream as run does.
stream_run_return_static(r) ==
    /\ receive(r, "stream_run")
    /\ LET generated == generate_run_result(Head(response_queue[r]), uuid_next)
           response_schema == generated[1]
           outputs == IF response_schema.outputs.some
                      THEN response_schema.outputs.v ELSE <<>>
       IN  IF outputs = <<>> \/ ~\E i \in 1..Len(outputs) : outputs[i].type = "stream"
           THEN /\ result' = [result EXCEPT ![r] = Some(response_schema)]
                /\ status_code' = [status_code EXCEPT ![r] = generated[2]]
                /\ req_pc' = [req_pc EXCEPT ![r] = "returned"]
           ELSE /\ result' = [result EXCEPT ![r] = Some(response_schema)]
                /\ status_code' = [status_code EXCEPT ![r] = 200]
                /\ req_pc' = [req_pc EXCEPT ![r] = "streaming"]

\* stream_run, lines 85-102 and 149-154: a result without outputs is returned
\* as it is; outputs without a stream raise TypeError, which the middleware of
\* startup.py answers with status 500; outputs with a stream start a
\* StreamingResponse.
stream_run_return(r) ==
    /\ receive(r, "stream_run")
    /\ LET generated == generate_run_result(Head(response_queue[r]), uuid_next)
           response_schema == generated[1]
           outputs == IF response_schema.outputs.some
                      THEN response_schema.outputs.v ELSE <<>>
       IN  IF outputs = <<>>
           THEN /\ result' = [result EXCEPT ![r] = Some(response_schema)]
                /\ status_code' = [status_code EXCEPT ![r] = generated[2]]
                /\ req_pc' = [req_pc EXCEPT ![r] = "returned"]
           ELSE IF ~\E i \in 1..Len(outputs) : outputs[i].type = "stream"
           THEN /\ result' = result
                /\ status_code' = [status_code EXCEPT ![r] = 500]
                /\ req_pc' = [req_pc EXCEPT ![r] = "raised"]
           ELSE /\ result' = [result EXCEPT ![r] = Some(response_schema)]
                /\ status_code' = [status_code EXCEPT ![r] = 200]
                /\ req_pc' = [req_pc EXCEPT ![r] = "streaming"]

\* No streaming response is being produced.
StreamIdle ==
    /\ stream_pc = "none" /\ stream_outputs = <<>> /\ static_outputs = <<>>
    /\ streaming_outputs = <<>> /\ stream_values = <<>> /\ frames = <<>>
    /\ connected = TRUE /\ ended = {} /\ detected = FALSE
    /\ stream_kind = <<>> /\ has_end = {} /\ queue = <<>> /\ producer_pc = <<>>
    /\ stream_error = "none" /\ next_calls = <<>> /\ stop_iteration = {}
    /\ stream_source = <<>>

\* No streaming run is served by the example entity.
EntityIdle ==
    /\ self_queue = <<>> /\ put_by = <<>> /\ pending = <<>> /\ predict_pc = None
    /\ thread_pc = <<>> /\ thread_values = <<>> /\ client_pc = <<>>
    /\ client_connected = <<>> /\ client_frames = <<>> /\ client_error = <<>>
    /\ ended_by = <<>>

\* The Executor at rest: no Graph under execution.
ExecutorIdle ==
    /\ ex_graph = "none" /\ ex_mode = "none" /\ ex_pc = "none"
    /\ ex_args = <<>> /\ ex_node = 0
    /\ ex_values = <<>> /\ ex_cache = <<>> /\ ex_entity = "none"
    /\ ex_calls = <<>> /\ ex_runs = 0 /\ ex_results = <<>> /\ ex_named = <<>>
    /\ ex_outcome = None

\* ------------------------------------------------------- objects/pipeline.py
\* Names a Pipeline is given, Variable objects, Function objects.
PipelineNames == {"a", "b"}
MaxVars == 2
Variables == 1..MaxVars
PipelineFunctions == {1}
\* Graph objects created, and the lengths the lists of a Graph may reach.
MaxGraphs == 2
MaxFunctions == 1
MaxNodes == 2
MaxOutputs == 2
\* Tracing calls of one process.
MaxOps == 4

\* Graph(name=...): a new Graph with empty lists.
NewGraph(name) ==
    [name |-> name, variables |-> <<>>, functions |-> <<>>, nodes |-> <<>>,
     outputs |-> <<>>]
\* The GraphNode objects a caller may hand in: a function, at most one input
\* reference (0 is a literal constant, else a Variable), one output Variable.
Literal == 0
GraphNodes ==
    {[function |-> f, inputs |-> ins, outputs |-> <<out>>] :
        f \in PipelineFunctions,
        ins \in {<<>>} \cup {<<x>> : x \in {Literal} \cup Variables},
        out \in Variables}
\* The argument lists of Pipeline.output.
OutputArgs == {<<>>} \cup {<<x>> : x \in Variables}
                 \cup {<<x, y>> : x, y \in Variables}

Range(seq) == {seq[i] : i \in 1..Len(seq)}

TracingInit ==
    /\ defined_pipelines = [n \in PipelineNames |-> None]
    /\ current_pipeline = None
    /\ pipeline_context_active = FALSE
    /\ graphs = <<>>
    /\ is_output = [x \in Variables |-> FALSE]
    /\ with_blocks = <<>>
    /\ op = <<"none", 0>>
    /\ op_count = 0
    /\ op_error = "none"
    /\ returned = None

\* Every tracing call is counted and named.
Called(name, arg) ==
    /\ op_count < MaxOps
    /\ op_count' = op_count + 1
    /\ op' = <<name, arg>>

\* with Pipeline(name): __init__ keeps the name, __enter__ makes a new Graph
\* the current one, whatever the state was.
enter(name) ==
    /\ Called("enter", name)
    /\ Len(graphs) < MaxGraphs
    /\ pipeline_context_active' = TRUE
    /\ graphs' = Append(graphs, NewGraph(name))
    /\ current_pipeline' = Some(Len(graphs) + 1)
    /\ with_blocks' = Append(with_blocks, Len(graphs) + 1)
    /\ op_error' = "none"
    /\ UNCHANGED <<defined_pipelines, is_output, returned>>

\* The innermost with block is left: __exit__ reads the name of the current
\* Graph, which is an AttributeError when there is none.
exit ==
    /\ with_blocks # <<>>
    /\ Called("exit", with_blocks[Len(with_blocks)])
    /\ with_blocks' = SubSeq(with_blocks, 1, Len(with_blocks) - 1)
    /\ IF current_pipeline.some
       THEN /\ defined_pipelines' =
                 [defined_pipelines EXCEPT ![graphs[current_pipeline.v].name] =
                                               current_pipeline]
            /\ pipeline_context_active' = FALSE
            /\ current_pipeline' = None
            /\ op_error' = "none"
       ELSE /\ op_error' = "AttributeError"
            /\ UNCHANGED <<defined_pipelines, pipeline_context_active, current_pipeline>>
    /\ UNCHANGED <<graphs, is_output, returned>>

\* The for loop of Pipeline.output over the Graph: list.index raises
\* ValueError for a Variable that is not in the list, after the Variables
\* before it have been flagged and appended.
RECURSIVE mark_outputs(_, _, _)
mark_outputs(graph, flags, outputs) ==
    IF outputs = <<>>
    THEN [graph |-> graph, flags |-> flags, raised |-> "none"]
    ELSE IF Head(outputs) \notin Range(graph.variables)
    THEN [graph |-> graph, flags |-> flags, raised |-> "ValueError"]
    ELSE mark_outputs([graph EXCEPT !.outputs = Append(@, Head(outputs))],
                      [flags EXCEPT ![Head(outputs)] = TRUE],
                      Tail(outputs))

\* pipeline.output(*outputs): nothing to do for no outputs; else the current
\* Graph is read, which is an AttributeError when there is none.
output(outputs) ==
    /\ Called("output", outputs)
    /\ IF outputs = <<>>
       THEN /\ op_error' = "none"
            /\ UNCHANGED <<graphs, is_output>>
       ELSE IF ~current_pipeline.some
       THEN /\ op_error' = "AttributeError"
            /\ UNCHANGED <<graphs, is_output>>
       ELSE LET marked == mark_outputs(graphs[current_pipeline.v], is_output, outputs)
            IN  /\ Len(marked.graph.outputs) <= MaxOutputs
                /\ graphs' = [graphs EXCEPT ![current_pipeline.v] = marked.graph]
                /\ is_output' = marked.flags
                /\ op_error' = marked.raised
    /\ UNCHANGED <<defined_pipelines, current_pipeline, pipeline_context_active,
                   with_blocks, returned>>

\* Pipeline.get_pipeline(graph_name)
get_pipeline(graph_name) ==
    /\ Called("get_pipeline", graph_name)
    /\ IF defined_pipelines[graph_name].some
       THEN /\ returned' = defined_pipelines[graph_name]
            /\ op_error' = "none"
       ELSE /\ op_error' = "Exception"
            /\ UNCHANGED returned
    /\ UNCHANGED <<defined_pipelines, current_pipeline, pipeline_context_active,
                   graphs, is_output, with_blocks>>

\* add_variable without the test for the Variable being listed already.
add_variable_appending(variable) ==
    /\ Called("add_variable", variable)
    /\ IF pipeline_context_active
       THEN /\ Len(graphs[current_pipeline.v].variables) < MaxVars + 1
            /\ graphs' = [graphs EXCEPT ![current_pipeline.v].variables =
                             Append(@, variable)]
            /\ op_error' = "none"
       ELSE /\ op_error' = "Exception"
            /\ UNCHANGED graphs
    /\ UNCHANGED <<defined_pipelines, current_pipeline, pipeline_context_active,
                   is_output, with_blocks, returned>>

\* Pipeline.add_variable(variable)
add_variable(variable) ==
    /\ Called("add_variable", variable)
    /\ IF pipeline_context_active
       THEN /\ graphs' = [graphs EXCEPT ![current_pipeline.v].variables =
                             IF variable \notin Range(@) THEN Append(@, variable) ELSE @]
            /\ op_error' = "none"
       ELSE /\ op_error' = "Exception"
            /\ UNCHANGED graphs
    /\ UNCHANGED <<defined_pipelines, current_pipeline, pipeline_context_active,
                   is_output, with_blocks, returned>>

\* Pipeline.add_function(function)
add_function(function) ==
    /\ Called("add_function", function)
    /\ IF pipeline_context_active
       THEN /\ Len(graphs[current_pipeline.v].functions) < MaxFunctions
            /\ graphs' = [graphs EXCEPT ![current_pipeline.v].functions =
                             Append(@, function)]
            /\ op_error' = "none"
       ELSE /\ op_error' = "Exception"
            /\ UNCHANGED graphs
    /\ UNCHANGED <<defined_pipelines, current_pipeline, pipeline_context_active,
                   is_output, with_blocks, returned>>

\* Pipeline.add_graph_node(graph_node)
add_graph_node(graph_node) ==
    /\ Called("add_graph_node", graph_node)
    /\ IF pipeline_context_active
       THEN /\ Len(graphs[current_pipeline.v].nodes) < MaxNodes
            /\ graphs' = [graphs EXCEPT ![current_pipeline.v].nodes =
                             Append(@, graph_node)]
            /\ op_error' = "none"
       ELSE /\ op_error' = "Exception"
            /\ UNCHANGED graphs
    /\ UNCHANGED <<defined_pipelines, current_pipeline, pipeline_context_active,
                   is_output, with_blocks, returned>>

TracingNext ==
    \/ \E name \in PipelineNames : enter(name) /\ UNCHANGED <<servingVars, executorVars, streamVars, entityVars>>
    \/ exit /\ UNCHANGED <<servingVars, executorVars, streamVars, entityVars>>
    \/ \E outputs \in OutputArgs : output(outputs) /\ UNCHANGED <<servingVars, executorVars, streamVars, entityVars>>
    \/ \E name \in PipelineNames : get_pipeline(name) /\ UNCHANGED <<servingVars, executorVars, streamVars, entityVars>>
    \/ \E x \in Variables : add_variable(x) /\ UNCHANGED <<servingVars, executorVars, streamVars, entityVars>>
    \/ \E f \in PipelineFunctions : add_function(f) /\ UNCHANGED <<servingVars, executorVars, streamVars, entityVars>>
    \/ \E n \in GraphNodes : add_graph_node(n) /\ UNCHANGED <<servingVars, executorVars, streamVars, entityVars>>

\* Tracing on its own: nothing is served and nothing is executed.
TracingStart == ServingInit /\ ExecutorIdle /\ TracingInit /\ StreamIdle /\ EntityIdle

TracingSpec == TracingStart /\ [][TracingNext]_vars

\* ------------------------------------------------------------ the Executor
\* A float, and a list of floats, as runtime values.
Float(n) == [list |-> FALSE, v |-> <<n>>]
List(xs) == [list |-> TRUE, v |-> xs]

\* A recorded Node: the function it invokes, the Variables it reads, and the
\* flags copied from its function; its output Variable is named after it.
GraphNode(function, inputs, run_once, on_startup) ==
    [function |-> function, inputs |-> inputs,
     run_once |-> run_once, on_startup |-> on_startup]
\* A graph input: its name and whether its type_class is list.
Variable(name, is_list) == [name |-> name, list |-> is_list]

\* examples/custom_models/model_with_file.py, with load flagged as given.
MLPipelineWith(load_run_once) ==
    [name |-> "ML pipeline",
     inputs |-> <<Variable("input_list", TRUE)>>,
     files |-> {"model_weight_file"},
     nodes |-> <<GraphNode("load", <<"model_weight_file">>, load_run_once, TRUE),
                 GraphNode("predict", <<"input_list">>, FALSE, FALSE),
                 GraphNode("tensor_to_list", <<"predict">>, FALSE, FALSE)>>,
     outputs |-> <<"tensor_to_list">>]
\* The example with load executed on every run.
MLPipeline_load_every_run == MLPipelineWith(FALSE)
MLPipeline == MLPipelineWith(TRUE)

\* tests/test_basic_maths.py: four stages, each fed the result of the one
\* before it, the first fed the inputs of the run.
MathsPipeline ==
    [name |-> "maths",
     inputs |-> <<Variable("a", FALSE), Variable("b", FALSE)>>,
     files |-> {},
     nodes |-> <<GraphNode("minus", <<"a", "b">>, FALSE, FALSE),
                 GraphNode("square", <<"minus">>, FALSE, FALSE),
                 GraphNode("pair", <<"square">>, FALSE, FALSE),
                 GraphNode("multiply", <<"pair">>, FALSE, FALSE)>>,
     outputs |-> <<"minus", "square", "pair", "multiply">>]

Graph(name) == IF name = "maths" THEN MathsPipeline ELSE MLPipeline
GraphNames == {"ML pipeline", "maths"}
Functions(graph) == {graph.nodes[i].function : i \in 1..Len(graph.nodes)}
VariableNames(graph) ==
    {graph.inputs[i].name : i \in 1..Len(graph.inputs)}
        \cup graph.files \cup Functions(graph)

\* The user functions of the two pipelines.
minus(a, b) == a - b
square(a) == a * a
pair(a) == <<a, a>>
multiply_adding(a, b) == a + b
multiply(a, b) == a * b

Returned(value) == [raised |-> FALSE, v |-> value]
Raises == [raised |-> TRUE, v |-> Float(0)]
\* MyModel.predict asserts a list of three numbers; MyModel.load returns None.
predict(x) == IF Len(x.v) = 3 THEN Returned(List(x.v)) ELSE Raises
load(model_file) == Returned(Float(0))
tensor_to_list(t) == Returned(List(t.v))

Parameters(function) == IF function \in {"minus", "multiply"} THEN 2 ELSE 1
\* The call of a Node's function on its arguments.
Call(function, args) ==
    CASE function = "minus" -> Returned(Float(minus(args[1].v[1], args[2].v[1])))
      [] function = "square" -> Returned(Float(square(args[1].v[1])))
      [] function = "pair" -> Returned(List(pair(args[1].v[1])))
      [] function = "multiply" -> Returned(Float(multiply(args[1].v[1], args[2].v[1])))
      [] function = "load" -> load(args[1])
      [] function = "predict" -> predict(args[1])
      [] function = "tensor_to_list" -> tensor_to_list(args[1])

\* The arguments of a Node: the values of the Variables it reads; a single
\* list feeding a function of several parameters is spread over them.
Arguments(node, values) ==
    LET read == [i \in 1..Len(node.inputs) |-> values[node.inputs[i]].v]
    IN  IF Len(read) = 1 /\ read[1].list /\ Parameters(node.function) > 1
        THEN [i \in 1..Len(read[1].v) |-> Float(read[1].v[i])]
        ELSE read

\* Inputs match the graph's inputs in count and type.
ValidInputs(graph, args) ==
    /\ Len(args) = Len(graph.inputs)
    /\ \A i \in 1..Len(args) : args[i].list = graph.inputs[i].list

\* The numbers a client sends, and the inputs a run may be given.
MaxInput == 4
Floats == 0..MaxInput
InputBindings(graph) ==
    IF graph.name = "maths"
    THEN {<<Float(a), Float(b)>> : a, b \in Floats}
            \cup {<<Float(4)>>, <<List(<<4, 4>>), Float(2)>>}
    ELSE {<<List(<<2, 3, 6>>)>>, <<List(<<2, 3>>)>>, <<Float(2)>>, <<>>}

\* Executions of one loaded Graph, the load phase included.
MaxRuns == 3

\* A Graph is loaded: by a Manager, which runs its on_startup Nodes before it
\* serves, or by a caller of Graph.run, which runs it as it is.
ExecutorInit ==
    /\ ex_graph \in GraphNames
    /\ ex_mode \in {"manager", "direct"}
    /\ ex_pc = "created"
    /\ ex_args = <<>>
    /\ ex_node = 0
    /\ ex_values = [x \in VariableNames(Graph(ex_graph)) |-> None]
    /\ ex_cache = [f \in Functions(Graph(ex_graph)) |-> None]
    /\ ex_entity = "constructed"
    /\ ex_calls = [f \in Functions(Graph(ex_graph)) |-> 0]
    /\ ex_runs = 0
    /\ ex_results = <<>>
    /\ ex_named = [f \in Functions(Graph(ex_graph)) |-> None]
    /\ ex_outcome = None

\* The values a run starts from: its inputs bound, its files present.
Bound(graph, args) ==
    [x \in VariableNames(graph) |->
        IF x \in graph.files THEN Some(Float(0))
        ELSE IF \E i \in 1..Len(args) : i <= Len(graph.inputs) /\ graph.inputs[i].name = x
        THEN Some(args[CHOOSE i \in 1..Len(args) : graph.inputs[i].name = x])
        ELSE None]

\* The Manager's load phase begins: only on_startup Nodes will be executed.
load_startup ==
    /\ ex_pc = "created" /\ ex_mode = "manager"
    /\ ex_pc' = "loading"
    /\ ex_node' = 1
    /\ ex_values' = Bound(Graph(ex_graph), <<>>)
    /\ ex_runs' = ex_runs + 1
    /\ UNCHANGED <<ex_graph, ex_mode, ex_args, ex_cache, ex_entity, ex_calls,
                   ex_results, ex_named, ex_outcome>>

\* An execution begins: inputs are checked against the graph's inputs before
\* any Node is looked at, and a mismatch ends it with RunInputException.
execute ==
    /\ ex_pc = "idle" \/ (ex_pc = "created" /\ ex_mode = "direct")
    /\ ex_runs < MaxRuns
    /\ \E args \in InputBindings(Graph(ex_graph)) :
          /\ ex_args' = args
          /\ IF ValidInputs(Graph(ex_graph), args)
             THEN /\ ex_pc' = "running"
                  /\ ex_node' = 1
                  /\ ex_values' = Bound(Graph(ex_graph), args)
                  /\ ex_outcome' = None
             ELSE /\ ex_pc' = "idle"
                  /\ ex_outcome' = Some(Raised(ex_runs + 1, "RunInputException"))
                  /\ UNCHANGED <<ex_node, ex_values>>
    /\ ex_runs' = ex_runs + 1
    /\ ex_results' = <<>>
    /\ ex_named' = [f \in Functions(Graph(ex_graph)) |-> None]
    /\ UNCHANGED <<ex_graph, ex_mode, ex_cache, ex_entity, ex_calls>>

\* The next Node in recorded order: skipped in the load phase unless it is
\* on_startup, replaced by its cached output when it is run_once and has been
\* executed, and else invoked; an exception of the function ends the run.
execute_node ==
    /\ ex_pc \in {"loading", "running"}
    /\ ex_node <= Len(Graph(ex_graph).nodes)
    /\ LET node == Graph(ex_graph).nodes[ex_node]
           f == node.function
           ret == Call(f, Arguments(node, ex_values))
           record(value) ==
              /\ ex_values' = [ex_values EXCEPT ![f] = Some(value)]
              /\ ex_results' = Append(ex_results, value)
              /\ ex_named' = [ex_named EXCEPT ![f] = Some(value)]
              /\ ex_node' = ex_node + 1
       IN  IF ex_pc = "loading" /\ ~node.on_startup
           THEN /\ ex_node' = ex_node + 1
                /\ UNCHANGED <<ex_pc, ex_values, ex_cache, ex_entity, ex_calls,
                               ex_results, ex_named, ex_outcome>>
           ELSE IF node.run_once /\ ex_cache[f].some
           THEN /\ record(ex_cache[f].v)
                /\ UNCHANGED <<ex_pc, ex_cache, ex_entity, ex_calls, ex_outcome>>
           ELSE /\ ex_calls' = [ex_calls EXCEPT ![f] = @ + 1]
                /\ IF ret.raised
                   THEN /\ ex_pc' = IF ex_pc = "loading" THEN "failed" ELSE "idle"
                        /\ ex_outcome' = Some(Raised(ex_runs, "RunnableError"))
                        /\ UNCHANGED <<ex_node, ex_values, ex_cache, ex_entity,
                                       ex_results, ex_named>>
                   ELSE /\ record(ret.v)
                        /\ ex_cache' = IF node.run_once
                                       THEN [ex_cache EXCEPT ![f] = Some(ret.v)]
                                       ELSE ex_cache
                        /\ ex_entity' = IF f = "load" THEN "loaded" ELSE ex_entity
                        /\ UNCHANGED <<ex_pc, ex_outcome>>
    /\ UNCHANGED <<ex_graph, ex_mode, ex_args, ex_runs>>

\* Past the last Node: the load phase is over, or the run returns its outputs
\* in declaration order.
execute_return ==
    /\ ex_pc \in {"loading", "running"}
    /\ ex_node > Len(Graph(ex_graph).nodes)
    /\ ex_pc' = "idle"
    /\ ex_outcome' =
          IF ex_pc = "loading" THEN None
          ELSE LET outputs == Graph(ex_graph).outputs
               IN  Some(Outputs(ex_runs, [i \in 1..Len(outputs) |-> ex_values[outputs[i]].v]))
    /\ UNCHANGED <<ex_graph, ex_mode, ex_args, ex_node, ex_values, ex_cache,
                   ex_entity, ex_calls, ex_runs, ex_results, ex_named>>

ExecutorNext ==
    \/ load_startup /\ UNCHANGED <<servingVars, tracingVars, streamVars, entityVars>>
    \/ execute /\ UNCHANGED <<servingVars, tracingVars, streamVars, entityVars>>
    \/ execute_node /\ UNCHANGED <<servingVars, tracingVars, streamVars, entityVars>>
    \/ execute_return /\ UNCHANGED <<servingVars, tracingVars, streamVars, entityVars>>

\* The Executor runs on its own: the serving runtime stays as constructed.
ExecutorStart == ServingInit /\ ExecutorInit /\ TracingInit /\ StreamIdle /\ EntityIdle

ExecutorSpec == ExecutorStart /\ [][ExecutorNext]_vars

\* ------------------------------------------- routes/v4/runs: stream_func
\* Outputs of a streaming run, of which streams, and values a stream yields.
MaxRunOutputs == 3
MaxStreams == 2
MaxStreamLen == 2

\* A value of the run: the output it belongs to, by its place in the outputs,
\* and for a value a stream yielded its place in the stream.
Value(shape, place, index) == [shape |-> shape, stream |-> place, index |-> index]
\* The types of the outputs of a streaming run: at least one is a stream.
Layouts ==
    {types \in UNION {[1..n -> {"integer", "stream"}] : n \in 1..MaxRunOutputs} :
        Cardinality({i \in DOMAIN types : types[i] = "stream"}) \in 1..MaxStreams}
\* What a stream yields, as whether each of its values is None.
StreamLengths == UNION {[1..n -> BOOLEAN] : n \in 0..MaxStreamLen}
Places(types, type) == {i \in DOMAIN types : types[i] = type}
\* What stands behind each Stream of a run: an iterator that has its values
\* at hand, or the generator of the streaming example, fed through the one
\* Queue of the entity by a producer thread.
StreamKinds(places) ==
    {kinds \in [places -> {"iterator", "queue"}] :
        Cardinality({p \in places : kinds[p] = "queue"}) <= 1}

\* stream_run has its result, with at least one stream among the outputs, and
\* hands stream_func to StreamingResponse; every stream output holds its
\* Stream (output.value is never None). A generator has no end attribute; the
\* iterators of a run are of one class, which may have one. A queue stream yields at least
\* the final image and no None; its producer has been started and has put
\* nothing yet.
StreamInit ==
    /\ stream_pc = "loop"
    /\ connected = TRUE
    /\ detected = FALSE
    /\ ended = {}
    /\ frames = <<>>
    /\ stream_error = "none"
    /\ stop_iteration = {}
    /\ \E types \in Layouts :
          /\ stream_outputs =
                [i \in DOMAIN types |->
                    RunOutput(types[i], Some(Value(types[i], i, 0)), None)]
          /\ \E kinds \in StreamKinds(Places(types, "stream")) :
                /\ stream_kind = kinds
                /\ \E nones \in [Places(types, "stream") -> StreamLengths] :
                      /\ \A p \in Places(types, "stream") :
                            kinds[p] = "queue" =>
                               /\ nones[p] # <<>>
                               /\ \A i \in DOMAIN nones[p] : ~nones[p][i]
                      /\ stream_values =
                            [p \in Places(types, "stream") |->
                                [i \in DOMAIN nones[p] |->
                                    IF nones[p][i] THEN None
                                    ELSE Some(Value("integer", p, i))]]
                /\ has_end \in {{}, {p \in Places(types, "stream") :
                                          kinds[p] = "iterator"}}
                /\ queue = [p \in Places(types, "stream") |-> <<>>]
                /\ producer_pc =
                      [p \in Places(types, "stream") |->
                          IF kinds[p] = "queue" THEN "running" ELSE "none"]
                /\ next_calls = [p \in Places(types, "stream") |-> 0]
    /\ stream_source = stream_values
    /\ static_outputs = SelectSeq(stream_outputs, LAMBDA o : o.type # "stream")
    /\ streaming_outputs = SelectSeq(stream_outputs, LAMBDA o : o.type = "stream")

\* The generator taking an empty queue for the end of the stream.
MyModelClass_stream_func_ending(q) ==
    IF q = <<>> THEN "StopIteration"
    ELSE IF Head(q) = None THEN "RuntimeError"
    ELSE "none"
\* MyModelClass.stream_func, the generator behind a queue stream, resumed by
\* __next__: queue.get(timeout=5) raises Empty when nothing is put in time;
\* the None the producer puts last makes the generator raise StopIteration,
\* which leaves a generator as RuntimeError; any other item is yielded.
MyModelClass_stream_func(q) ==
    IF q = <<>> THEN "Empty"
    ELSE IF Head(q) = None THEN "RuntimeError"
    ELSE "none"

\* What the next __next__ of the stream at a place reads from, and the
\* exception it raises ("none" when it returns a value): an iterator stream
\* returns its next value or raises StopIteration at its end.
Pending(p) == IF stream_kind[p] = "queue" THEN queue[p] ELSE stream_values[p]
NextRaises(p) ==
    IF stream_kind[p] = "queue" THEN MyModelClass_stream_func(queue[p])
    ELSE IF stream_values[p] = <<>> THEN "StopIteration"
    ELSE "none"

Place(o) == o.value.v.stream
OpenPlaces == {Place(streaming_outputs[i]) : i \in 1..Len(streaming_outputs)}

\* The for loop taking, of every open stream, the last value it has to yield.
RECURSIVE next_streaming_outputs_last(_, _)
next_streaming_outputs_last(outputs, values) ==
    IF outputs = <<>> THEN <<>>
    ELSE LET remaining == values[Head(outputs).value.v.stream]
             rest == next_streaming_outputs_last(Tail(outputs), values)
         IN  IF remaining # <<>> /\ remaining[Len(remaining)].some
             THEN <<RunOutput(from_object(remaining[Len(remaining)].v),
                              remaining[Len(remaining)], None)>> \o rest
             ELSE rest

\* The for loop keeping the new value of the first open stream only.
next_streaming_outputs_first(outputs, values) ==
    IF outputs = <<>> THEN <<>>
    ELSE LET remaining == values[Head(outputs).value.v.stream]
         IN  IF remaining # <<>> /\ Head(remaining).some
             THEN <<RunOutput(from_object(Head(remaining).v), Head(remaining), None)>>
             ELSE <<>>

\* The for loop of stream_func: the next value of every open stream that has
\* one and is not None, as an output of the value's type.
RECURSIVE next_streaming_outputs(_, _)
next_streaming_outputs(outputs, values) ==
    IF outputs = <<>> THEN <<>>
    ELSE LET remaining == values[Head(outputs).value.v.stream]
             rest == next_streaming_outputs(Tail(outputs), values)
         IN  IF remaining # <<>> /\ Head(remaining).some
             THEN <<RunOutput(from_object(Head(remaining).v), Head(remaining), None)>>
                     \o rest
             ELSE rest

\* A stream that has raised StopIteration is left among the open ones.
Exhausted_kept(o) == FALSE
\* except StopIteration: the stream goes to to_remove.
Exhausted(o) == NextRaises(Place(o)) = "StopIteration"

\* The first open stream, in the order of the for loop, whose __next__ raises
\* something other than StopIteration (0 when none does): the exception
\* leaves the for loop and stream_func, the streams after it are not advanced.
FirstFatal ==
    LET fatal == {i \in 1..Len(streaming_outputs) :
                     NextRaises(Place(streaming_outputs[i])) \in {"Empty", "RuntimeError"}}
    IN  IF fatal = {} THEN 0
        ELSE CHOOSE i \in fatal : \A j \in fatal : i <= j
\* The places whose __next__ is called in this turn of the while loop.
AdvancedPlaces ==
    {Place(streaming_outputs[i]) :
        i \in IF FirstFatal = 0 THEN 1..Len(streaming_outputs) ELSE 1..FirstFatal}

\* One turn of the while loop up to its yield: every open stream is advanced,
\* the exhausted ones are removed, and the loop is left without a frame when
\* none is open any more; else a frame of the static outputs and the new
\* values is yielded. An exception other than StopIteration ends stream_func.
stream_func_next ==
    /\ stream_pc = "loop"
    /\ streaming_outputs # <<>>
    /\ stream_values' =
          [p \in DOMAIN stream_values |->
              IF p \in AdvancedPlaces /\ stream_kind[p] = "iterator"
                   /\ stream_values[p] # <<>>
              THEN Tail(stream_values[p])
              ELSE stream_values[p]]
    /\ queue' =
          [p \in DOMAIN queue |->
              IF p \in AdvancedPlaces /\ stream_kind[p] = "queue" /\ queue[p] # <<>>
              THEN Tail(queue[p])
              ELSE queue[p]]
    /\ next_calls' =
          [p \in DOMAIN next_calls |->
              IF p \in AdvancedPlaces THEN next_calls[p] + 1 ELSE next_calls[p]]
    /\ stop_iteration' =
          stop_iteration \cup {p \in AdvancedPlaces : NextRaises(p) = "StopIteration"}
    /\ IF FirstFatal # 0
       THEN /\ stream_pc' = "failed"
            /\ stream_error' = NextRaises(Place(streaming_outputs[FirstFatal]))
            /\ UNCHANGED <<streaming_outputs, frames>>
       ELSE /\ streaming_outputs' =
                  SelectSeq(streaming_outputs, LAMBDA o : ~Exhausted(o))
            /\ UNCHANGED stream_error
            /\ IF streaming_outputs' = <<>>
               THEN /\ stream_pc' = "done"
                    /\ UNCHANGED frames
               ELSE /\ frames' = Append(frames,
                         ContainerRunResult(
                             Some(static_outputs
                                    \o next_streaming_outputs(streaming_outputs,
                                          [p \in DOMAIN stream_values |-> Pending(p)])),
                             None, None))
                    /\ stream_pc' = "yielded"
    /\ UNCHANGED <<stream_outputs, static_outputs, connected, ended, detected,
                   stream_kind, has_end, producer_pc, stream_source>>

\* After the yield: a disconnected client ends the open streams whose
\* iterable has an end attribute, and the loop.
stream_func_resume ==
    /\ stream_pc = "yielded"
    /\ IF ~connected
       THEN /\ ended' = ended \cup (OpenPlaces \cap has_end)
            /\ detected' = TRUE
            /\ stream_pc' = "done"
       ELSE /\ stream_pc' = "loop"
            /\ UNCHANGED <<ended, detected>>
    /\ UNCHANGED <<stream_outputs, static_outputs, streaming_outputs, stream_values,
                   frames, connected, stream_kind, has_end, queue, producer_pc,
                   stream_error, next_calls, stop_iteration, stream_source>>

\* The client goes away while the response is being streamed.
disconnect ==
    /\ stream_pc \in {"loop", "yielded"}
    /\ connected
    /\ connected' = FALSE
    /\ UNCHANGED <<stream_pc, stream_outputs, static_outputs, streaming_outputs,
                   stream_values, frames, ended, detected, stream_kind, has_end,
                   queue, producer_pc, stream_error, next_calls, stop_iteration,
                   stream_source>>

\* run_func putting on a queue that holds one item: the put waits for the get.
run_func_waiting(p) ==
    /\ producer_pc[p] = "running"
    /\ queue[p] = <<>>
    /\ IF stream_values[p] # <<>>
       THEN /\ queue' = [queue EXCEPT ![p] = Append(@, Head(stream_values[p]))]
            /\ stream_values' = [stream_values EXCEPT ![p] = Tail(@)]
            /\ UNCHANGED producer_pc
       ELSE /\ queue' = [queue EXCEPT ![p] = Append(@, None)]
            /\ producer_pc' = [producer_pc EXCEPT ![p] = "done"]
            /\ UNCHANGED stream_values
    /\ UNCHANGED <<stream_pc, stream_outputs, static_outputs, streaming_outputs,
                   frames, connected, ended, detected, stream_kind, has_end,
                   stream_error, next_calls, stop_iteration, stream_source>>

\* MyModelClass.run_func, the thread predict starts before it returns the
\* Stream: one put per step, the values in their order (callback_on_step_end
\* and the final image), then None, after which the thread ends. It reads
\* nothing of the response: it runs on whatever stream_func does.
run_func(p) ==
    /\ producer_pc[p] = "running"
    /\ IF stream_values[p] # <<>>
       THEN /\ queue' = [queue EXCEPT ![p] = Append(@, Head(stream_values[p]))]
            /\ stream_values' = [stream_values EXCEPT ![p] = Tail(@)]
            /\ UNCHANGED producer_pc
       ELSE /\ queue' = [queue EXCEPT ![p] = Append(@, None)]
            /\ producer_pc' = [producer_pc EXCEPT ![p] = "done"]
            /\ UNCHANGED stream_values
    /\ UNCHANGED <<stream_pc, stream_outputs, static_outputs, streaming_outputs,
                   frames, connected, ended, detected, stream_kind, has_end,
                   stream_error, next_calls, stop_iteration, stream_source>>

StreamNext ==
    \/ stream_func_next /\ UNCHANGED <<servingVars, executorVars, tracingVars, entityVars>>
    \/ stream_func_resume /\ UNCHANGED <<servingVars, executorVars, tracingVars, entityVars>>
    \/ disconnect /\ UNCHANGED <<servingVars, executorVars, tracingVars, entityVars>>
    \/ \E p \in DOMAIN producer_pc :
          run_func(p) /\ UNCHANGED <<servingVars, executorVars, tracingVars, entityVars>>

\* One streaming response on its own.
StreamStart == ServingInit /\ ExecutorIdle /\ TracingInit /\ StreamInit /\ EntityIdle

StreamSpec == StreamStart /\ [][StreamNext]_vars

\* ----------------------------- sdxl-lightning-streaming: one entity, many runs
\* Streaming runs served by one loaded MyModelClass, and the values its
\* diffusion run puts per run (the intermediate images and the final one).
MaxClients == 2
MaxSteps == 2
Clients == 1..MaxClients

\* A value run_func puts: the image of a step of the run of client r.
RunValue(r, i) == [shape |-> "integer", run |-> r, index |-> i]

\* load has run once: self.queue = Queue(); no run has been requested.
EntityInit ==
    /\ self_queue = <<>>
    /\ put_by = <<>>
    /\ pending = <<>>
    /\ predict_pc = None
    /\ thread_pc = [r \in Clients |-> "none"]
    /\ thread_values = [r \in Clients |-> <<>>]
    /\ client_pc = [r \in Clients |-> "new"]
    /\ client_connected = [r \in Clients |-> TRUE]
    /\ client_frames = [r \in Clients |-> <<>>]
    /\ client_error = [r \in Clients |-> "none"]
    /\ ended_by = [r \in Clients |-> 0]

\* stream_run up to its await, the Manager being ready: the pair is queued.
client_stream_run(r) ==
    /\ client_pc[r] = "new"
    /\ \A q \in Clients : q < r => client_pc[q] # "new"
    /\ pending' = Append(pending, r)
    /\ client_pc' = [client_pc EXCEPT ![r] = "waiting"]
    /\ UNCHANGED <<self_queue, put_by, predict_pc, thread_pc, thread_values,
                   client_connected, client_frames, client_error, ended_by>>

\* The consumer loop takes the oldest pair and starts its execution: predict
\* is entered.
predict_enter ==
    /\ predict_pc = None
    /\ pending # <<>>
    /\ predict_pc' = Some(Head(pending))
    /\ pending' = Tail(pending)
    /\ UNCHANGED <<self_queue, put_by, thread_pc, thread_values, client_pc,
                   client_connected, client_frames, client_error, ended_by>>

\* predict starts the run_func thread and returns Stream(self.stream_func());
\* the execution is over, the consumer pushes the reply and is free for the
\* next pair, and stream_run hands stream_func to StreamingResponse.
predict_return ==
    /\ predict_pc # None
    /\ LET r == predict_pc.v
       IN  /\ \E n \in 1..MaxSteps :
                 thread_values' = [thread_values EXCEPT
                                      ![r] = [i \in 1..n |-> Some(RunValue(r, i))]]
           /\ thread_pc' = [thread_pc EXCEPT ![r] = "running"]
           /\ client_pc' = [client_pc EXCEPT ![r] = "loop"]
    /\ predict_pc' = None
    /\ UNCHANGED <<self_queue, put_by, pending, client_connected, client_frames,
                   client_error, ended_by>>

\* run_func of the run of client r: one put on self.queue per step, then None.
thread_run_func(r) ==
    /\ thread_pc[r] = "running"
    /\ put_by' = Append(put_by, r)
    /\ IF thread_values[r] # <<>>
       THEN /\ self_queue' = Append(self_queue, Head(thread_values[r]))
            /\ thread_values' = [thread_values EXCEPT ![r] = Tail(@)]
            /\ UNCHANGED thread_pc
       ELSE /\ self_queue' = Append(self_queue, None)
            /\ thread_pc' = [thread_pc EXCEPT ![r] = "done"]
            /\ UNCHANGED thread_values
    /\ UNCHANGED <<pending, predict_pc, client_pc, client_connected, client_frames,
                   client_error, ended_by>>

\* One turn of stream_func for client r, whose one output is the stream: its
\* generator gets from self.queue; a value is yielded in a frame, anything the
\* generator raises ends the response.
client_stream_func_next(r) ==
    /\ client_pc[r] = "loop"
    /\ LET raised == MyModelClass_stream_func(self_queue)
       IN  /\ IF self_queue # <<>>
              THEN /\ self_queue' = Tail(self_queue)
                   /\ put_by' = Tail(put_by)
              ELSE UNCHANGED <<self_queue, put_by>>
           /\ IF raised = "none"
              THEN /\ client_frames' = [client_frames EXCEPT ![r] = Append(@,
                         ContainerRunResult(
                             Some(<<RunOutput(from_object(Head(self_queue).v),
                                              Head(self_queue), None)>>),
                             None, None))]
                   /\ client_pc' = [client_pc EXCEPT ![r] = "yielded"]
                   /\ UNCHANGED <<client_error, ended_by>>
              ELSE /\ client_pc' = [client_pc EXCEPT ![r] = "failed"]
                   /\ client_error' = [client_error EXCEPT ![r] = raised]
                   /\ ended_by' = [ended_by EXCEPT
                                     ![r] = IF raised = "RuntimeError"
                                            THEN Head(put_by) ELSE @]
                   /\ UNCHANGED client_frames
    /\ UNCHANGED <<pending, predict_pc, thread_pc, thread_values, client_connected>>

\* After the yield: a client that has gone ends the loop; the generator has
\* no end attribute, so nothing is called on it.
client_stream_func_resume(r) ==
    /\ client_pc[r] = "yielded"
    /\ client_pc' = [client_pc EXCEPT
                       ![r] = IF client_connected[r] THEN "loop" ELSE "done"]
    /\ UNCHANGED <<self_queue, put_by, pending, predict_pc, thread_pc, thread_values,
                   client_connected, client_frames, client_error, ended_by>>

\* The client of a streaming response goes away.
client_disconnect(r) ==
    /\ client_pc[r] \in {"loop", "yielded"}
    /\ client_connected[r]
    /\ client_connected' = [client_connected EXCEPT ![r] = FALSE]
    /\ UNCHANGED <<self_queue, put_by, pending, predict_pc, thread_pc, thread_values,
                   client_pc, client_frames, client_error, ended_by>>

EntityNext ==
    \/ \E r \in Clients : client_stream_run(r) /\ UNCHANGED <<servingVars, executorVars, tracingVars, streamVars>>
    \/ predict_enter /\ UNCHANGED <<servingVars, executorVars, tracingVars, streamVars>>
    \/ predict_return /\ UNCHANGED <<servingVars, executorVars, tracingVars, streamVars>>
    \/ \E r \in Clients : thread_run_func(r) /\ UNCHANGED <<servingVars, executorVars, tracingVars, streamVars>>
    \/ \E r \in Clients : client_stream_func_next(r) /\ UNCHANGED <<servingVars, executorVars, tracingVars, streamVars>>
    \/ \E r \in Clients : client_stream_func_resume(r) /\ UNCHANGED <<servingVars, executorVars, tracingVars, streamVars>>
    \/ \E r \in Clients : client_disconnect(r) /\ UNCHANGED <<servingVars, executorVars, tracingVars, streamVars>>

\* The loaded entity serving streaming runs, on its own.
EntityStart == ServingInit /\ ExecutorIdle /\ TracingInit /\ StreamIdle /\ EntityInit

EntitySpec == EntityStart /\ [][EntityNext]_vars

\* ------------------------------------------------------------- specification
Init == ServingInit /\ ExecutorIdle /\ TracingInit /\ StreamIdle /\ EntityIdle

Next ==
    \/ lifespan /\ UNCHANGED <<executorVars, tracingVars, streamVars, entityVars>>
    \/ lifespan_exit /\ UNCHANGED <<executorVars, tracingVars, streamVars, entityVars>>
    \/ manager_load /\ UNCHANGED <<executorVars, tracingVars, streamVars, entityVars>>
    \/ \E n \in StartupNodes : manager_startup(n) /\ UNCHANGED <<executorVars, tracingVars, streamVars, entityVars>>
    \/ manager_ready /\ UNCHANGED <<executorVars, tracingVars, streamVars, entityVars>>
    \/ \E t \in TaskIds : handler_get(t) /\ UNCHANGED <<executorVars, tracingVars, streamVars, entityVars>>
    \/ \E t \in TaskIds : handler_put(t) /\ UNCHANGED <<executorVars, tracingVars, streamVars, entityVars>>
    \/ \E r \in Requests : run(r) /\ UNCHANGED <<executorVars, tracingVars, streamVars, entityVars>>
    \/ \E r \in Requests : stream_run(r) /\ UNCHANGED <<executorVars, tracingVars, streamVars, entityVars>>
    \/ \E r \in Requests : run_return(r) /\ UNCHANGED <<executorVars, tracingVars, streamVars, entityVars>>
    \/ \E r \in Requests : stream_run_return(r) /\ UNCHANGED <<executorVars, tracingVars, streamVars, entityVars>>

Spec == Init /\ [][Next]_vars

\* ------------------------------------------------------------------- helpers
InQueue(r) == \E i \in 1..Len(execution_queue) : execution_queue[i].run_create = r
TimesInQueue(r) ==
    Cardinality({i \in 1..Len(execution_queue) : execution_queue[i].run_create = r})
Admitted(r) == req_pc[r] \in {"waiting", "returned", "raised", "streaming"}
Replied(r) == req_pc[r] \in {"returned", "raised", "streaming"}

\* ---------------------------------------------------------------------- C1
\* C1: single-flight. In every reachable state at most one execution is in
\* flight against the Entities, and an execution begins only when every
\* execution begun before it has finished: of the requests whose execution
\* has begun, only the last one can still be in flight.
C1_SingleFlight ==
    /\ Cardinality(in_flight) <= 1
    /\ \A i \in 1..Len(start_order) :
          i < Len(start_order) => start_order[i] \notin in_flight

\* Two requests were submitted, the first has been executed and the second is
\* in flight.
C1_Witness ==
    /\ Len(start_order) = 2
    /\ in_flight = {start_order[2]}
    /\ executed[start_order[1]].some

\* ---------------------------------------------------------------------- C2
\* C2: a request that arrives while the Manager is loading, load_failed or
\* startup_failed is rejected at once and never queued: the step that rejects
\* it leaves the queue and the Manager's state as they were, and every request
\* in the queue, or ever admitted, arrived while the state was ready.
C2_RejectedStep ==
    \A r \in Requests :
        (req_pc[r] = "new" /\ req_pc'[r] # "new")
            => /\ pipeline_state # "ready" => req_pc'[r] = "rejected"
               /\ req_pc'[r] = "rejected"
                     => UNCHANGED <<execution_queue, pipeline_state,
                                    pipeline_state_message, load_pc, admit_order>>
C2_QueuedWhileReady ==
    /\ \A i \in 1..Len(execution_queue) :
          /\ state_seen[execution_queue[i].run_create] = "ready"
          /\ req_pc[execution_queue[i].run_create] = "waiting"
    /\ \A i \in 1..Len(admit_order) : state_seen[admit_order[i]] = "ready"
    /\ \A r \in Requests : req_pc[r] = "rejected" => ~InQueue(r) /\ exec_count[r] = 0
\* C2 (the claim): both parts above, in every step and every state.
C2_NotReadyRejected == [][C2_RejectedStep]_vars /\ []C2_QueuedWhileReady

\* A stream_run request was rejected in state startup_failed and a run request
\* in another non-ready state.
C2_Witness ==
    /\ pipeline_state = "startup_failed"
    /\ \E r, q \in Requests :
          /\ req_pc[r] = "rejected" /\ req_kind[r] = "stream_run"
          /\ state_seen[r] = "startup_failed"
          /\ req_pc[q] = "rejected" /\ req_kind[q] = "run"
          /\ state_seen[q] = "loading"

\* ---------------------------------------------------------------------- C3
\* C3: FIFO admission. Executions begin in the order in which the requests
\* were put on the queue, and when an execution begins the reply of every
\* execution begun before it has been pushed.
C3_Fifo ==
    /\ Len(start_order) <= Len(admit_order)
    /\ \A i \in 1..Len(start_order) : start_order[i] = admit_order[i]
    /\ \A i \in 1..Len(start_order) :
          i < Len(start_order) => pushes[start_order[i]] >= 1

\* Two requests were queued; both executions have begun, in the order of
\* their admission, the reply of the first pushed.
C3_Witness ==
    /\ Len(admit_order) = 2
    /\ start_order = admit_order
    /\ pushes[admit_order[1]] = 1
    /\ exec_count[admit_order[2]] = 1

\* ---------------------------------------------------------------------- C4
\* C4: every admitted request is executed exactly once, whatever its outcome.
\* No request is executed twice; an admitted request is either still in the
\* queue, once, and not executed yet, or out of the queue and executed once;
\* a request that was not admitted is never executed; and a request whose
\* reply has been received was executed exactly once.
C4_ExactlyOnce ==
    \A r \in Requests :
        /\ exec_count[r] <= 1
        /\ TimesInQueue(r) <= 1
        /\ Admitted(r) => (InQueue(r) <=> exec_count[r] = 0)
        /\ ~Admitted(r) => exec_count[r] = 0 /\ ~InQueue(r)
        /\ Replied(r) => exec_count[r] = 1 /\ ~InQueue(r)
        /\ executed[r].some => exec_count[r] = 1

\* Every request was admitted and has returned, one with an exception as its
\* outcome, and the executions number the requests.
C4_Witness ==
    /\ \A r \in Requests : req_pc[r] = "returned" /\ exec_count[r] = 1
    /\ Len(start_order) = MaxReq
    /\ \E r \in Requests : executed[r].v.cls = "RunnableError"
    /\ \E r \in Requests : executed[r].v.cls = "outputs"

\* ---------------------------------------------------------------------- C5
\* C5: reply routing. A response_queue receives at most one reply, and only
\* the outcome of the request that created it; the result a run request
\* returns is the one generated from the outcome the Executor computed for
\* that request.
C5_ReplyRouting ==
    \A r \in Requests :
        /\ pushes[r] <= 1
        /\ pushes[r] = 1 <=> executed[r].some
        /\ \A i \in 1..Len(response_queue[r]) :
              /\ response_queue[r][i].run = r
              /\ executed[r] = Some(response_queue[r][i])
        /\ Replied(r) => pushes[r] = 1 /\ response_queue[r] = <<>>
        /\ (req_pc[r] = "returned" /\ req_kind[r] = "run")
              => \E u \in 0..uuid_next :
                    result[r] = Some(generate_run_result(executed[r].v, u)[1])

\* Two run requests were executed with different outcomes and each has
\* returned its own.
C5_Witness ==
    /\ \A r \in Requests : req_pc[r] = "returned" /\ req_kind[r] = "run"
    /\ \E r, q \in Requests :
          /\ executed[r].v.cls = "Exception"
          /\ result[r].v.error.v.type = "unknown"
          /\ executed[q].v.cls = "outputs"
          /\ result[q].v.outputs.some
          /\ Len(result[q].v.outputs.v) = 2

\* ---------------------------------------------------------------------- C6
StartupComplete ==
    \A n \in StartupNodes : startup_count[n] = 1 /\ n \notin startup_error

C6_Transition ==
    pipeline_state' # pipeline_state
        => /\ pipeline_state = "loading"
           /\ pipeline_state' \in {"ready", "load_failed", "startup_failed"}
C6_Admission ==
    \A r \in Requests :
        (req_pc[r] = "new" /\ req_pc'[r] = "waiting") => pipeline_state = "ready"
\* C6: the Manager's lifecycle. The state is loading at first; the only
\* changes of state are loading -> ready, loading -> load_failed and
\* loading -> startup_failed, so the failure states are terminal; and a
\* request is admitted only in state ready.
C6_Lifecycle ==
    /\ pipeline_state = "loading"
    /\ [][C6_Transition /\ C6_Admission]_vars
    /\ [](pipeline_state \in PipelineState)

\* The Manager became ready after turning a request away while loading, and
\* has admitted the next request.
C6_Witness ==
    /\ pipeline_state = "ready"
    /\ \E r, q \in Requests :
          /\ req_pc[r] = "rejected" /\ state_seen[r] = "loading"
          /\ req_pc[q] = "waiting" /\ state_seen[q] = "ready"

\* ---------------------------------------------------------------------- C7
C7_Once == \A n \in StartupNodes : startup_count[n] <= 1
C7_BeforeServing ==
    /\ pipeline_state = "ready" => \A n \in StartupNodes : startup_count[n] = 1
    /\ (admit_order # <<>> \/ start_order # <<>> \/ execution_queue # <<>>)
          => \A n \in StartupNodes : startup_count[n] = 1
C7_NoneAfterLoading ==
    pipeline_state # "loading" => startup_count' = startup_count
\* C7: every on_startup Node is executed at most once and, once the Graph is
\* loaded (state ready), exactly once; no on_startup Node is executed after
\* the state has left loading; and every on_startup Node has been executed
\* before a request is admitted or executed.
C7_OnStartup ==
    /\ [](C7_Once /\ C7_BeforeServing)
    /\ [][C7_NoneAfterLoading]_vars

\* The Graph is loaded, each on_startup Node was executed once, and a request
\* admitted afterwards has been executed.
C7_Witness ==
    /\ pipeline_state = "ready"
    /\ \A n \in StartupNodes : startup_count[n] = 1
    /\ \E r \in Requests : executed[r].some

\* ---------------------------------------------------------------------- C8
\* C8: the load outcome. The state is ready only if the Graph was resolved
\* and its Entities constructed and every on_startup Node completed without
\* raising; once an on_startup Node has raised the state is startup_failed;
\* state load_failed is the one in which the Graph could not be resolved or
\* constructed; and no failure is followed by ready.
C8_LoadOutcome ==
    /\ pipeline_state = "ready" => pipeline_loaded /\ StartupComplete
    /\ startup_error # {} => pipeline_state = "startup_failed"
    /\ pipeline_state = "startup_failed" => pipeline_loaded /\ startup_error # {}
    /\ pipeline_state = "load_failed" <=> (load_pc = "done" /\ ~pipeline_loaded)
    /\ pipeline_state = "loading" <=> load_pc # "done"

\* The second on_startup Node raised after the first had completed.
C8_Witness ==
    /\ pipeline_state = "startup_failed"
    /\ startup_error = {2}
    /\ startup_count[1] = 1

\* ---------------------------------------------------------------------- C9
\* C9: the result of a rejected request names the state it was rejected in.
\* Rejected while loading: error pipeline_loading, no outputs, no traceback.
\* Rejected in load_failed or startup_failed: error startup_error, no
\* outputs, and as diagnostic the Manager's pipeline_state_message, which
\* was captured when the load phase failed.
C9_RejectedResult ==
    \A r \in Requests :
        req_pc[r] = "rejected"
            => /\ result[r].some
               /\ ~result[r].v.outputs.some
               /\ result[r].v.error.some
               /\ state_seen[r] \in {"loading", "load_failed", "startup_failed"}
               /\ state_seen[r] = "loading"
                     => /\ result[r].v.error.v.type = "pipeline_loading"
                        /\ ~result[r].v.error.v.traceback.some
               /\ state_seen[r] \in {"load_failed", "startup_failed"}
                     => /\ result[r].v.error.v.type = "startup_error"
                        /\ result[r].v.error.v.traceback = pipeline_state_message
                        /\ pipeline_state_message.some
                        /\ pipeline_state_message.v[1] =
                              (IF state_seen[r] = "load_failed"
                               THEN "load traceback" ELSE "startup traceback")

\* One request was rejected while the Manager was loading and the next after
\* the load had failed.
C9_Witness ==
    /\ pipeline_state = "load_failed"
    /\ \E r, q \in Requests :
          /\ req_pc[r] = "rejected" /\ state_seen[r] = "loading"
          /\ req_pc[q] = "rejected" /\ state_seen[q] = "load_failed"
          /\ result[q].v.error.v.traceback.some

\* --------------------------------------------------------------------- C10
\* C10: the outcome mapping. A RunInputException gives error input_error with
\* its message, no outputs and no traceback; a RunnableError gives error
\* pipeline_error with the text of its exception and its trace, and no
\* outputs; any other exception gives error unknown with a message and no
\* traceback; outputs give one typed output per value and no error. In every
\* result exactly one of outputs and error is not None.
C10_OutcomeMapping ==
    \A r \in Requests :
        /\ result[r].some => (result[r].v.outputs.some <=> ~result[r].v.error.some)
        /\ (req_pc[r] \in {"returned", "streaming"})
              => /\ result[r].some /\ executed[r].some
                 /\ LET res == result[r].v
                        run_output == executed[r].v
                    IN  CASE run_output.cls = "RunInputException" ->
                                /\ ~res.outputs.some
                                /\ res.error.some
                                /\ res.error.v.type = "input_error"
                                /\ res.error.v.message = <<"message", r>>
                                /\ ~res.error.v.traceback.some
                          [] run_output.cls = "RunnableError" ->
                                /\ ~res.outputs.some
                                /\ res.error.some
                                /\ res.error.v.type = "pipeline_error"
                                /\ res.error.v.message = <<"repr", r>>
                                /\ res.error.v.traceback = Some(<<"traceback", r>>)
                          [] run_output.cls = "Exception" ->
                                /\ ~res.outputs.some
                                /\ res.error.some
                                /\ res.error.v.type = "unknown"
                                /\ res.error.v.message = <<"str", r>>
                                /\ ~res.error.v.traceback.some
                          [] OTHER ->
                                /\ res.outputs.some
                                /\ ~res.error.some
                                /\ Len(res.outputs.v) = Len(run_output.outs)

\* A run request returned input_error for a RunInputException and a
\* stream_run request returned pipeline_error for a RunnableError.
C10_Witness ==
    \E r, q \in Requests :
        /\ req_pc[r] = "returned" /\ req_kind[r] = "run"
        /\ executed[r].v.cls = "RunInputException"
        /\ result[r].v.error.v.type = "input_error"
        /\ status_code[r] = 400
        /\ req_pc[q] = "returned" /\ req_kind[q] = "stream_run"
        /\ executed[q].v.cls = "RunnableError"
        /\ result[q].v.error.v.type = "pipeline_error"

\* ---------------------------------------------------------------------- C11
Failed(r) == executed[r].some /\ executed[r].v.cls = "RunnableError"
StartedBefore(r, q) ==
    \E i, j \in 1..Len(start_order) :
        i < j /\ start_order[i] = r /\ start_order[j] = q

\* The step in which the user function of request r raises leaves the Manager
\* ready with its loaded pipeline, takes nothing from the queue, and leaves a
\* consumer loop waiting for the next pair.
C11_FailureStep ==
    [][\A r \in Requests :
          (~executed[r].some /\ executed'[r].some
             /\ executed'[r].v.cls = "RunnableError")
          => /\ pipeline_state = "ready" /\ pipeline_state' = "ready"
             /\ pipeline_loaded /\ pipeline_loaded'
             /\ startup_count' = startup_count
             /\ execution_queue' = execution_queue
             /\ \E t \in tasks : handler_pc[t] = "running" /\ handler_pc'[t] = "get"]_vars

\* A failed request is answered as pipeline_error with status 200, and a
\* request executed after it gets the result of its own outcome.
C11_Isolated ==
    \A r \in Requests :
        Failed(r) =>
          /\ pipeline_state = "ready" /\ pipeline_loaded
          /\ req_pc[r] = "returned" =>
                /\ result[r].v.error.some
                /\ result[r].v.error.v.type = "pipeline_error"
                /\ status_code[r] = 200
          /\ \A q \in Requests :
                (StartedBefore(r, q) /\ executed[q].some) =>
                   /\ executed[q].v.run = q
                   /\ req_pc[q] = "returned" =>
                        \E u \in 0..uuid_next :
                            /\ result[q] = Some(generate_run_result(executed[q].v, u)[1])
                            /\ status_code[q] = generate_run_result(executed[q].v, u)[2]

\* C11: after a request whose user function raises (reported as
\* pipeline_error) the Manager is still ready, the consumer loop goes on, and
\* the requests behind it are executed against the same loaded pipeline and
\* receive their own replies.
C11_FailureIsolation == C11_FailureStep /\ []C11_Isolated

C11_Witness ==
    \E r, q \in Requests :
        /\ Failed(r) /\ StartedBefore(r, q)
        /\ req_pc[r] = "returned" /\ result[r].v.error.some
        /\ req_pc[q] = "returned" /\ result[q].v.outputs.some

\* ---------------------------------------------------------------------- C12
\* The step that ends an execution with RunInputException is the one that
\* began it: no function was invoked and the Entity, the cache and the
\* recorded results are as they were.
C12_ValidationStep ==
    [][(ex_outcome'.some /\ ex_outcome' # ex_outcome
          /\ ex_outcome'.v.cls = "RunInputException")
       => /\ ex_pc # "running" /\ ex_pc' = "idle"
          /\ ~ValidInputs(Graph(ex_graph), ex_args')
          /\ ex_calls' = ex_calls
          /\ ex_entity' = ex_entity
          /\ ex_cache' = ex_cache
          /\ ex_results' = <<>>]_vars

\* An execution whose inputs do not match never reaches a Node, and its
\* outcome is reported as input_error, with no traceback, under status 400.
C12_Malformed ==
    /\ ex_pc = "running" => ValidInputs(Graph(ex_graph), ex_args)
    /\ (ex_pc = "idle" /\ ex_runs > 0 /\ ex_args # <<>>
          /\ ~ValidInputs(Graph(ex_graph), ex_args))
       => /\ ex_outcome.some /\ ex_outcome.v.cls = "RunInputException"
    /\ (ex_outcome.some /\ ex_outcome.v.cls = "RunInputException")
       => LET generated == generate_run_result(ex_outcome.v, 0)
          IN  /\ generated[1].error.some
              /\ generated[1].error.v.type = "input_error"
              /\ ~generated[1].error.v.traceback.some
              /\ ~generated[1].outputs.some
              /\ generated[2] = 400

\* C12: inputs that do not match the expected count or type end the
\* execution with RunInputException, reported as input_error with no trace,
\* before any user function is invoked, so that Entity state is unchanged.
C12_ValidationFirst == C12_ValidationStep /\ []C12_Malformed

\* A run with mismatched inputs has failed after an earlier run invoked the
\* functions and loaded the Entity.
C12_Witness ==
    /\ ex_outcome.some /\ ex_outcome.v.cls = "RunInputException"
    /\ ex_entity = "loaded"
    /\ \E f \in DOMAIN ex_calls : ex_calls[f] > 0
    /\ ex_runs >= 2

\* ---------------------------------------------------------------------- C13
\* MyModel.load is the run_once function of the example pipeline.
RunOnceFunctions == {"load"} \cap DOMAIN ex_calls

\* A run_once function has been invoked once exactly when its output is
\* cached, never more than once, and every execution that is past its Node
\* holds the cached output as the value of the Node's output.
C13_Once ==
    \A f \in RunOnceFunctions :
        /\ ex_calls[f] <= 1
        /\ ex_calls[f] = 1 <=> ex_cache[f].some
        /\ \A i \in 1..Len(Graph(ex_graph).nodes) :
              (Graph(ex_graph).nodes[i].function = f /\ ex_node > i)
              => /\ ex_calls[f] = 1
                 /\ ex_values[f] = ex_cache[f]

\* A step over the Node of an executed run_once function invokes nothing and
\* substitutes the cached output.
C13_Skipped ==
    [][\A f \in RunOnceFunctions :
          (ex_cache[f].some /\ ex_pc = "running" /\ ex_node' = ex_node + 1
             /\ Graph(ex_graph).nodes[ex_node].function = f)
          => /\ ex_calls' = ex_calls
             /\ ex_entity' = ex_entity
             /\ ex_cache' = ex_cache
             /\ ex_values'[f] = ex_cache[f]]_vars

\* C13: over any number of executions of a loaded Graph, the load phase
\* counted, a run_once Node's function is executed exactly once; every later
\* execution skips the Node and substitutes the output cached from that one.
C13_RunOnce == []C13_Once /\ C13_Skipped

\* Three executions of the example have ended, the last with outputs, and
\* load was invoked in the first only.
C13_Witness ==
    /\ ex_graph = "ML pipeline"
    /\ ex_runs = MaxRuns /\ ex_pc = "idle"
    /\ ex_outcome.some /\ ex_outcome.v.cls = "outputs"
    /\ ex_calls["load"] = 1 /\ ex_calls["predict"] >= 2

\* ---------------------------------------------------------------------- C15
\* While a run is under way the Nodes before the current one have been
\* evaluated, in recorded order: each has one recorded result, which is its
\* function applied to the inputs of the run and the results of earlier Nodes.
C15_InOrder ==
    ex_pc = "running" =>
       /\ Len(ex_results) = ex_node - 1
       /\ \A i \in 1..(ex_node - 1) :
             LET node == Graph(ex_graph).nodes[i]
             IN  /\ \A k \in 1..Len(node.inputs) : ex_values[node.inputs[k]].some
                 /\ \A k \in 1..Len(node.inputs) :
                       node.inputs[k] \in Functions(Graph(ex_graph)) =>
                          \E j \in 1..(i - 1) :
                             Graph(ex_graph).nodes[j].function = node.inputs[k]
                 /\ ex_results[i] = Call(node.function, Arguments(node, ex_values)).v
                 /\ ex_named[node.function] = Some(ex_results[i])

\* A run that returned gives the outputs in declaration order, each the
\* result recorded under its name.
C15_Returned ==
    (ex_pc = "idle" /\ ex_outcome.some /\ ex_outcome.v.cls = "outputs") =>
       LET outputs == Graph(ex_graph).outputs
       IN  /\ Len(ex_outcome.v.outs) = Len(outputs)
           /\ \A i \in 1..Len(outputs) :
                 ex_named[outputs[i]] = Some(ex_outcome.v.outs[i])

\* The maths chain run with (4.0, 2.0).
C15_Maths ==
    (ex_graph = "maths" /\ ex_pc = "idle" /\ ex_outcome.some
       /\ ex_args = <<Float(4), Float(2)>>) =>
       /\ ex_results = <<Float(2), Float(4), List(<<4, 4>>), Float(16)>>
       /\ ex_outcome.v.outs = ex_results

\* C15: Nodes are evaluated strictly in recorded order, their inputs bound
\* from the graph inputs or from values produced by earlier Nodes of the
\* same run, and the outputs are returned in declaration order; the chain
\* minus, square, pair, multiply run with (4.0, 2.0) gives
\* [2.0, 4.0, [4.0, 4.0], 16.0], and the returned value equals the recorded
\* named results.
C15_RecordedOrder == C15_InOrder /\ C15_Returned /\ C15_Maths

\* The maths chain has run with (4.0, 2.0) and returned.
C15_Witness ==
    /\ ex_graph = "maths" /\ ex_pc = "idle"
    /\ ex_args = <<Float(4), Float(2)>>
    /\ ex_outcome.some /\ ex_outcome.v.cls = "outputs"
    /\ Len(ex_results) = 4
    /\ ex_named["multiply"] = Some(Float(16))

\* ------------------------------------------------------------------ tracing
\* The step is a call of the tracing operation `name`.
Calls(name) == op_count' # op_count /\ op'[1] = name
Registered(g) == \E n \in PipelineNames : defined_pipelines[n] = Some(g)
Produces(graph, j, x) == x \in Range(graph.nodes[j].outputs)

\* ---------------------------------------------------------------------- C14
\* C14: in every Graph each input reference of every Node is a literal, a
\* declared graph input (a registered Variable no Node produces), or a
\* Variable produced by a Node recorded strictly earlier.
C14_EarlierInputs ==
    \A g \in 1..Len(graphs) :
        \A i \in 1..Len(graphs[g].nodes) :
            \A x \in Range(graphs[g].nodes[i].inputs) :
                \/ x = Literal
                \/ \E j \in 1..(i - 1) : Produces(graphs[g], j, x)
                \/ /\ x \in Range(graphs[g].variables)
                   /\ \A j \in 1..Len(graphs[g].nodes) : ~Produces(graphs[g], j, x)

\* ---------------------------------------------------------------------- C16
\* C16: beginning a context while another one is active fails with an error
\* and leaves the active Graph and the registry unchanged.
C16_NoNesting ==
    [][(Calls("enter") /\ pipeline_context_active)
       => /\ op_error' # "none"
          /\ current_pipeline' = current_pipeline
          /\ graphs' = graphs
          /\ defined_pipelines' = defined_pipelines]_vars

\* ---------------------------------------------------------------------- C17
\* C17: add_variable, add_function, add_graph_node and output, invoked while
\* no tracing context is active, fail with an error and change neither a
\* registered Graph nor the registry.
C17_NoContext ==
    [][(~pipeline_context_active
          /\ \E name \in {"add_variable", "add_function", "add_graph_node", "output"} :
                Calls(name))
       => /\ op_error' # "none"
          /\ defined_pipelines' = defined_pipelines
          /\ \A g \in 1..Len(graphs) : Registered(g) => graphs'[g] = graphs[g]]_vars

\* ---------------------------------------------------------------------- C18
\* C18: an output call naming a Variable that was never registered on the
\* active Graph fails and leaves the Graph's variables, its outputs and every
\* is_output flag unchanged; an output call naming registered Variables sets
\* their flags and appends them to the Graph's outputs.
C18_MarkOutput ==
    [][(Calls("output") /\ current_pipeline.some)
       => LET g == current_pipeline.v
              outputs == op'[2]
          IN  IF \E x \in Range(outputs) : x \notin Range(graphs[g].variables)
              THEN /\ op_error' # "none"
                   /\ graphs' = graphs
                   /\ is_output' = is_output
              ELSE /\ op_error' = "none"
                   /\ graphs'[g].outputs = graphs[g].outputs \o outputs
                   /\ graphs'[g].variables = graphs[g].variables
                   /\ \A x \in Variables :
                         is_output'[x] = (is_output[x] \/ x \in Range(outputs))]_vars

\* ---------------------------------------------------------------------- C19
\* C19: leaving a with block registers the Graph built in it under its name
\* and clears the active context; get_pipeline of a registered name returns
\* its Graph and of any other name fails; and no tracing call changes a
\* registered Graph.
C19_Registration ==
    [][/\ Calls("exit") =>
            LET g == with_blocks[Len(with_blocks)]
            IN  /\ op_error' = "none"
                /\ defined_pipelines'[graphs[g].name] = Some(g)
                /\ ~pipeline_context_active'
                /\ ~current_pipeline'.some
       /\ Calls("get_pipeline") =>
            IF defined_pipelines[op'[2]].some
            THEN op_error' = "none" /\ returned' = defined_pipelines[op'[2]]
            ELSE op_error' # "none"
       /\ \A g \in 1..Len(graphs) : Registered(g) => graphs'[g] = graphs[g]]_vars

\* ---------------------------------------------------------------------- C20
\* C20: a streaming run whose client stays connected has emitted at least one
\* frame when its response ends, whatever the lengths of its streams.
C20_NonEmptyFrames ==
    (stream_pc = "done" /\ connected) => Len(frames) >= 1

\* ---------------------------------------------------------------------- C21
\* C21: when a streaming run has run to exhaustion, the last frame it emitted
\* is a terminal frame: its outputs are the static outputs and nothing else.
C21_TerminalFrame ==
    (stream_pc = "done" /\ ~detected /\ frames # <<>>) =>
        frames[Len(frames)].outputs.v = static_outputs

\* ---------------------------------------------------------------------- C22
\* C22: a stream that has raised StopIteration is open no longer and is never
\* advanced again, a stream is closed by nothing else, and the turn of the
\* loop in which the last open stream is exhausted ends the response without
\* a frame, after which no frame is emitted. (When another stream fails in the
\* turn in which a stream is exhausted, the response ends at once.)
C22_Closed ==
    /\ stream_pc # "failed" => stop_iteration \cap OpenPlaces = {}
    /\ stream_pc # "none" => OpenPlaces \cup stop_iteration = DOMAIN stream_source
    /\ (stream_pc # "none" /\ streaming_outputs = <<>>) => stream_pc = "done"
C22_ExhaustionStep ==
    /\ \A p \in stop_iteration : next_calls'[p] = next_calls[p]
    /\ (streaming_outputs # <<>> /\ streaming_outputs' = <<>>) =>
          frames' = frames /\ stream_pc' = "done"
    /\ streaming_outputs = <<>> => frames' = frames
C22_NoFrameAfterExhaustion == [](C22_Closed) /\ [][C22_ExhaustionStep]_vars
\* Two streams were exhausted in different turns of a run that emitted frames.
C22_Witness ==
    /\ stream_pc = "done" /\ ~detected
    /\ Cardinality(stop_iteration) = 2
    /\ \E p, q \in stop_iteration : next_calls[p] < next_calls[q]
    /\ frames # <<>>

\* ---------------------------------------------------------------------- C23
\* C23: every frame starts with the static outputs of the result, unchanged
\* and in their order among the outputs, followed by at most one value per
\* stream in the order of the streams; the turn that emits a frame, or ends
\* the loop, advances every stream that was open exactly once, and the values
\* of the frame are those the open streams returned in that turn: for each
\* stream the value at the position of its newest __next__ call.
StreamPart(frame) ==
    SubSeq(frame.outputs.v, Len(static_outputs) + 1, Len(frame.outputs.v))
C23_Static ==
    /\ static_outputs = SelectSeq(stream_outputs, LAMBDA o : o.type # "stream")
    /\ \A k \in 1..Len(frames) :
          /\ frames[k].outputs.some
          /\ Len(frames[k].outputs.v) >= Len(static_outputs)
          /\ SubSeq(frames[k].outputs.v, 1, Len(static_outputs)) = static_outputs
          /\ \A i, j \in 1..Len(StreamPart(frames[k])) :
                i < j => StreamPart(frames[k])[i].value.v.stream
                            < StreamPart(frames[k])[j].value.v.stream
C23_Turn ==
    (stream_pc = "loop" /\ stream_pc' \in {"yielded", "done"}) =>
        /\ \A p \in DOMAIN next_calls :
              next_calls'[p] = IF p \in OpenPlaces THEN next_calls[p] + 1
                               ELSE next_calls[p]
        /\ stream_pc' = "yielded" =>
              /\ Len(frames') = Len(frames) + 1
              /\ SubSeq(frames', 1, Len(frames)) = frames
              /\ LET new == StreamPart(frames'[Len(frames')])
                     newest(p) == stream_source[p][next_calls'[p]]
                 IN  /\ \A i \in 1..Len(new) :
                           /\ new[i].value.v.stream \in OpenPlaces
                           /\ new[i].value = newest(new[i].value.v.stream)
                           /\ new[i].value.v.index = next_calls'[new[i].value.v.stream]
                     /\ {new[i].value.v.stream : i \in 1..Len(new)} =
                           {p \in OpenPlaces :
                               /\ next_calls'[p] <= Len(stream_source[p])
                               /\ newest(p).some}
C24_EndSignal ==
    detected => OpenPlaces \subseteq ended

\* ---------------------------------------------------------------------- C25
\* C25: after the departure of the consumer has been detected, the producer of
\* a stream that was open puts nothing more unless the end signal has reached
\* its stream, and it ends only having been sent that signal.
C25_ProducerEnds ==
    [][\A p \in OpenPlaces :
          (detected /\ producer_pc[p] = "running" /\ queue'[p] # queue[p])
             => p \in ended]_vars

\* ---------------------------------------------------------------------- C26
\* C26: a turn of the loop taken while an open queue stream has nothing to get
\* (its producer has not put within the wait) ends stream_func with the Empty
\* of the timed get: no frame, the stream not counted as exhausted; and a
\* response that has failed emits nothing and advances nothing any more.
Stalled(p) == stream_kind[p] = "queue" /\ queue[p] = <<>>
C26_StallStep ==
    /\ (stream_pc = "loop" /\ stream_pc' # "loop"
          /\ \E p \in OpenPlaces : Stalled(p)) =>
             /\ stream_pc' = "failed"
             /\ stream_error' = "Empty"
             /\ frames' = frames
             /\ \A p \in OpenPlaces : Stalled(p) => p \notin stop_iteration'
    /\ stream_pc = "failed" =>
          /\ stream_pc' = "failed"
          /\ stream_error' = stream_error
          /\ frames' = frames
          /\ next_calls' = next_calls
C26_Failed == stream_pc = "failed" <=> stream_error # "none"
C26_StalledStreamFails == [](C26_Failed) /\ [][C26_StallStep]_vars
\* A stream stalled after its first frame, its producer still running.
C26_Witness ==
    /\ stream_pc = "failed" /\ stream_error = "Empty"
    /\ frames # <<>>
    /\ \E p \in OpenPlaces : Stalled(p) /\ producer_pc[p] = "running"

\* ---------------------------------------------------------------------- C27
\* C27: pipeline_state_message is empty while the Manager is loading or ready;
\* in a failure state it holds the diagnostic of that failure, and from then
\* on neither the state nor the message changes.
FailureStates == {"load_failed", "startup_failed"}
C27_Populated ==
    /\ pipeline_state \notin FailureStates => ~pipeline_state_message.some
    /\ pipeline_state \in FailureStates =>
          /\ pipeline_state_message.some
          /\ pipeline_state_message.v[1] =
                (IF pipeline_state = "load_failed"
                 THEN "load traceback" ELSE "startup traceback")
C27_Step ==
    /\ pipeline_state_message.some => pipeline_state_message' = pipeline_state_message
    /\ pipeline_state \in FailureStates => pipeline_state' = pipeline_state
C27_MessageOnFailure == [](C27_Populated) /\ [][C27_Step]_vars
\* The start-up failed, and requests arrived before and after the failure.
C27_Witness ==
    /\ pipeline_state = "startup_failed"
    /\ pipeline_state_message.some
    /\ \E r, q \in Requests :
          /\ state_seen[r] = "loading" /\ req_pc[r] = "rejected"
          /\ state_seen[q] = "startup_failed" /\ req_pc[q] = "rejected"

\* ---------------------------------------------------------------------- C28
\* C28: in every Graph a Variable is among the outputs of at most one Node.
C28_SingleProducer ==
    \A g \in 1..Len(graphs) :
        \A x \in Variables :
            Cardinality({j \in 1..Len(graphs[g].nodes) :
                            Produces(graphs[g], j, x)}) <= 1

\* ---------------------------------------------------------------------- C29
\* C29: no Graph lists a Variable twice among its variables; add_variable in
\* an active context leaves the Variable listed once, adds one entry when it
\* was not listed and none when it was, and keeps every other entry in place.
Count(seq, x) == Cardinality({i \in 1..Len(seq) : seq[i] = x})
C29_Listed ==
    \A g \in 1..Len(graphs) :
        \A x \in Variables : Count(graphs[g].variables, x) <= 1
C29_Declare ==
    (Calls("add_variable") /\ pipeline_context_active) =>
        LET old == graphs[current_pipeline.v].variables
            new == graphs'[current_pipeline.v].variables
        IN  /\ op_error' = "none"
            /\ Count(new, op'[2]) = 1
            /\ Len(new) = Len(old) + (IF op'[2] \in Range(old) THEN 0 ELSE 1)
            /\ SubSeq(new, 1, Len(old)) = old
            /\ \A g \in 1..Len(graphs) :
                  g # current_pipeline.v => graphs'[g] = graphs[g]
C29_Idempotent == [](C29_Listed) /\ [][C29_Declare]_vars
\* A Variable is declared a second time on a Graph that lists two Variables.
C29_Witness ==
    /\ op = <<"add_variable", 1>>
    /\ op_error = "none"
    /\ \E g \in 1..Len(graphs) :
          /\ current_pipeline = Some(g)
          /\ Len(graphs[g].variables) = 2
          /\ graphs[g].variables[1] = 1

\* ---------------------------------------------------------------------- C30
\* C30: in every Graph the outputs are registered Variables whose is_output
\* flag is set, every registered Variable whose flag is set is among them,
\* and none is listed twice.
C30_DesignatedOutputs ==
    \A g \in 1..Len(graphs) :
        /\ Range(graphs[g].outputs) \subseteq Range(graphs[g].variables)
        /\ \A x \in Range(graphs[g].outputs) : is_output[x]
        /\ \A x \in Range(graphs[g].variables) :
              is_output[x] => x \in Range(graphs[g].outputs)
        /\ \A i, j \in 1..Len(graphs[g].outputs) :
              graphs[g].outputs[i] = graphs[g].outputs[j] => i = j

\* ---------------------------------------------------------------------- C31
\* C31: a stream_run request that has its reply starts a streaming response
\* only when the execution returned outputs with a stream among them; an
\* exception or no outputs give the one result and nothing is streamed; and
\* outputs without a stream end in TypeError after the execution, answered
\* with status 500 and no result.
HasStream(run_output) ==
    \E i \in 1..Len(run_output.outs) : run_output.outs[i].shape = "stream"
C31_StreamOnly ==
    \A r \in Requests :
        (req_kind[r] = "stream_run" /\ req_pc[r] \in {"returned", "raised", "streaming"}) =>
            /\ executed[r].some
            /\ LET run_output == executed[r].v
               IN  /\ req_pc[r] = "streaming" <=>
                         (run_output.cls = "outputs" /\ HasStream(run_output))
                   /\ req_pc[r] = "returned" <=>
                         (run_output.cls # "outputs" \/ run_output.outs = <<>>)
                   /\ req_pc[r] = "raised" <=>
                         /\ run_output.cls = "outputs"
                         /\ run_output.outs # <<>>
                         /\ ~HasStream(run_output)
                   /\ req_pc[r] = "returned" =>
                         /\ result[r].some
                         /\ \/ result[r].v.error.some
                            \/ result[r].v.outputs = Some(<<>>)
                   /\ req_pc[r] = "raised" =>
                         ~result[r].some /\ status_code[r] = 500
                   /\ req_pc[r] = "streaming" =>
                         /\ result[r].some
                         /\ \E i \in 1..Len(result[r].v.outputs.v) :
                               result[r].v.outputs.v[i].type = "stream"
\* One stream_run ended in TypeError and another started to stream.
C31_Witness ==
    \E r, q \in Requests :
        /\ req_kind[r] = "stream_run" /\ req_pc[r] = "raised"
        /\ req_kind[q] = "stream_run" /\ req_pc[q] = "streaming"

\* ---------------------------------------------------------------------- C32
\* C32: no caller is left suspended without a reply. Once the lifespan has
\* ended nothing pushes a reply any more, so every handler still waiting must
\* have its reply on its response_queue already.
C32_NoCallerStranded ==
    app_pc = "shutdown" =>
        \A r \in Requests : req_pc[r] = "waiting" => response_queue[r] # <<>>

\* ---------------------------------------------------------------------- C33
\* C33: while the consumer stays connected, the values of a stream found in
\* the frames, in the order of the frames, are the values its __next__ has
\* returned that are not None, each once and in the order it returned them.
RECURSIVE FrameValues(_, _)
FrameValues(p, fs) ==
    IF fs = <<>> THEN <<>>
    ELSE LET outs == SelectSeq(Head(fs).outputs.v,
                               LAMBDA o : o.type # "stream" /\ o.value.v.stream = p
                                             /\ o.value.v.index > 0)
         IN  [i \in 1..Len(outs) |-> outs[i].value] \o FrameValues(p, Tail(fs))
\* The values __next__ of the stream at a place has returned so far.
ReturnedValues(p) ==
    LET waiting == IF stream_kind[p] = "queue"
                   THEN Len(SelectSeq(queue[p], LAMBDA v : v.some)) ELSE 0
        taken == Len(stream_source[p]) - Len(stream_values[p]) - waiting
    IN  SelectSeq(SubSeq(stream_source[p], 1, taken), LAMBDA v : v.some)
StepsLeft(p) ==
    IF producer_pc[p] = "running" THEN Len(stream_values[p]) + 1 ELSE 0
C34_CanStep ==
    \A p \in DOMAIN producer_pc : producer_pc[p] = "running" => ENABLED run_func(p)
C34_Step ==
    \A p \in DOMAIN producer_pc :
        /\ producer_pc[p] = "done" => producer_pc'[p] = "done"
        /\ stream_kind[p] = "queue" =>
              IF producer_pc'[p] # producer_pc[p] \/ Len(queue'[p]) > Len(queue[p])
              THEN StepsLeft(p)' = StepsLeft(p) - 1
              ELSE StepsLeft(p)' = StepsLeft(p)
C34_NoProducerLeaked == [](C34_CanStep) /\ [][C34_Step]_vars
\* The consumer left, its departure was detected, and the producer ran on to
\* its end, leaving what it put on the queue.
C34_Witness ==
    /\ detected
    /\ \E p \in OpenPlaces :
          /\ producer_pc[p] = "done"
          /\ p \notin ended
          /\ Len(queue[p]) >= 2

\* ---------------------------------------------------------------------- C35
\* C35: while the run_func thread of a streaming run is running, the consumer
\* executes no other run, and no other run's thread is running.
C35_SingleFlightStreaming ==
    \A r \in Clients :
        thread_pc[r] = "running" =>
            /\ predict_pc = None
            /\ \A q \in Clients : q # r => thread_pc[q] # "running"

\* ---------------------------------------------------------------------- C36
\* C36: every value in a frame sent to a client was put by the thread of that
\* client's own run, and a stream that ended on a None ended on the None of
\* its own run.
C36_IsolatedStreams ==
    \A r \in Clients :
        /\ \A k \in 1..Len(client_frames[r]) :
              \A i \in 1..Len(client_frames[r][k].outputs.v) :
                  client_frames[r][k].outputs.v[i].value.v.run = r
        /\ client_error[r] = "RuntimeError" => ended_by[r] = r

====
